---- MODULE Spec2Model ----
\* Signal-routing engine of the node-modular synthesizer: the AudioNodeManager
\* registry and connection resolver, the event fan-out lists of the sequencer
\* and keyboard units, and the editor handlers that drive them.
EXTENDS Integers, Sequences, FiniteSets, Bags, TLC

\* ---------------------------------------------------------------- bounds
\* unit instances a node component constructs for one node id
MaxGen == 2
\* Tone.Scale stages that exist at the same time
MaxScalers == 2
\* onConnect gestures whose timers have not all run yet
MaxPending == 1
\* edges drawn on an empty canvas
MaxStore == 2
\* template applications in one editor session
MaxApply == 1
\* step columns of the sequencer grid
GridSteps == 4

\* ---------------------------------------------------------------- units
NodeIds == {"seq", "env", "vco", "lfo", "kbd", "filter", "out", "toDestination", "fm",
            "notecv"}

Unit == [node : NodeIds, gen : 1..MaxGen]

NoUnit == [node |-> "none", gen |-> 0]

Undefined == "undefined"

HasConnectTriggerUnchecked(u) == TRUE

\* SequencerNode / KeyboardNode offer connectTrigger
\* (typeof sourceNode.connectTrigger === 'function')
HasConnectTrigger(u) == u.node \in {"seq", "kbd"}

\* SequencerNode / KeyboardNode offer connectNote
HasConnectNote(u) == u.node \in {"seq", "kbd"}

\* the target offers triggerAttackRelease (Tone.AmplitudeEnvelope, VCONode,
\* FMSynthNode)
HasTriggerAttackRelease(u) == u.node \in {"env", "vco", "fm"}

\* the target offers triggerAttack and triggerRelease (Tone.AmplitudeEnvelope,
\* FMSynthNode)
HasTriggerAttack(u) == u.node \in {"env", "fm"}

\* the target offers setNote (VCONode, FMSynthNode)
HasSetNote(u) == u.node \in {"vco", "fm"}

\* the unit's trigger methods sound its cached currentNote (FMSynthNode)
HasCurrentNote(u) == u.node \in {"fm"}

\* VCONode.setCVInputConnected / setNoteInputConnected exist
HasInputFlags(u) == u.node \in {"vco"}

\* targetNode[property]: "connectable" when the property is an object with a
\* connect function, "absent" when the unit has no such property
PropOf(u, property) ==
  CASE u.node = "vco" /\ property \in {"frequency", "note"} -> "connectable"
    [] u.node = "seq" /\ property \in {"note", "gate"} -> "connectable"
    [] u.node = "lfo" /\ property \in {"frequency"} -> "connectable"
    [] u.node = "filter" /\ property \in {"frequency", "Q"} -> "connectable"
    [] OTHER -> "absent"

\* the unit has an input a source can be connected to (VCONode.input and
\* Tone.LFO are signal sources without inputs)
AcceptsInput(u) == u.node \in {"env", "seq", "filter", "out", "toDestination"}

\* ---------------------------------------------------------------- handles and edges
\* a handle id "a-b-c" is kept as its '-' separated parts <<"a","b","c">>
getSignalTypeGuessing(handleId) ==
  IF handleId = <<>> THEN "audio"
  ELSE CASE handleId[Len(handleId)] = "trigger" -> "gate"
         [] handleId[Len(handleId)] = "frequency" -> "cv"
         [] handleId[Len(handleId)] = "input" -> "audio"
         [] OTHER -> handleId[Len(handleId)]

getSignalType(handleId) ==
  IF handleId = <<>> THEN Undefined ELSE handleId[Len(handleId)]

\* part.startsWith('control'), over the handle parts the components use
StartsWithControl(part) ==
  part \in {"control", "control1", "control2", "control3", "controlCustom"}

RECURSIVE findControl(_, _)
findControl(parts, i) ==
  IF i > Len(parts) THEN 0
  ELSE IF StartsWithControl(parts[i]) THEN i
  ELSE findControl(parts, i + 1)

extractProperty(handleId) ==
  IF handleId = <<>> THEN Undefined
  ELSE LET controlIndex == findControl(handleId, 1)
       IN IF controlIndex >= 1 /\ controlIndex + 1 <= Len(handleId)
          THEN handleId[controlIndex + 1]
          ELSE handleId[Len(handleId)]

\* the Connection objects the editor hands to onConnect
GateConnection ==
  [source |-> "seq", target |-> "env",
   sourceHandle |-> <<"seq", "gate", "gate">>,
   targetHandle |-> <<"env", "control1", "trigger", "gate">>]

NoteConnection ==
  [source |-> "seq", target |-> "vco",
   sourceHandle |-> <<"seq", "note", "note">>,
   targetHandle |-> <<"vco", "control2", "note", "note">>]

CVConnection ==
  [source |-> "lfo", target |-> "vco",
   sourceHandle |-> <<"lfo", "output", "cv">>,
   targetHandle |-> <<"vco", "control1", "frequency", "cv">>]

AudioConnection ==
  [source |-> "vco", target |-> "env",
   sourceHandle |-> <<"vco", "output", "audio">>,
   targetHandle |-> <<"env", "input", "audio">>]

Connections == {GateConnection, NoteConnection, CVConnection, AudioConnection}

\* the graphs put on the editor canvas: the node components mounted and the
\* connections the user can draw between them
Canvases == {"gate", "note", "modulation", "audio"}

CanvasNodes(c) ==
  CASE c = "gate" -> {"seq", "env"}
    [] c = "note" -> {"seq", "vco"}
    [] c = "modulation" -> {"lfo", "vco"}
    [] c = "audio" -> {"vco", "env"}
    [] c = "sequencer" -> {"seq", "env", "vco"}
    [] OTHER -> {"seq", "env", "vco", "lfo"}

CanvasConnections(c) ==
  CASE c = "gate" -> {GateConnection}
    [] c = "note" -> {NoteConnection}
    [] c = "modulation" -> {CVConnection}
    [] c = "audio" -> {AudioConnection}
    [] c = "sequencer" -> {GateConnection, NoteConnection}
    [] OTHER -> Connections

\* newEdge of onConnect
NewEdge(params) ==
  [id |-> <<"e", params.source, params.target>>,
   source |-> params.source,
   target |-> params.target,
   sourceHandle |-> params.sourceHandle,
   targetHandle |-> params.targetHandle,
   data |-> [targetProperty |-> extractProperty(params.targetHandle),
             sourceProperty |-> extractProperty(params.sourceHandle)]]

EdgeUniverse == {NewEdge(c) : c \in Connections}

\* ---------------------------------------------------------------- parameter ranges
\* a range table is a set of entries; ranges are kept in tenths
VcoRanges == {[name |-> "frequency", min |-> 200, max |-> 20000],
              [name |-> "detune", min |-> -1000, max |-> 1000]}

DetuneOnly == {[name |-> "detune", min |-> -1000, max |-> 1000]}

LfoRanges == {[name |-> "frequency", min |-> 1, max |-> 200],
              [name |-> "amplitude", min |-> 0, max |-> 10]}

FilterRanges == {[name |-> "frequency", min |-> 2000, max |-> 50000],
                 [name |-> "Q", min |-> 1, max |-> 200]}

\* the params argument: given = FALSE is an omitted argument
NoParams == [given |-> FALSE, table |-> {}]

WithParams(t) == [given |-> TRUE, table |-> t]

ParamChoices(id) ==
  CASE id = "vco" -> {NoParams, WithParams(VcoRanges), WithParams(DetuneOnly)}
    [] id = "lfo" -> {WithParams(LfoRanges)}
    [] id = "filter" -> {NoParams, WithParams(FilterRanges)}
    [] OTHER -> {NoParams}

HasParamDef(table, property) == \E r \in table : r.name = property

ParamDef(table, property) == CHOOSE r \in table : r.name = property

\* ---------------------------------------------------------------- state
VARIABLES
  canvas,             \* the graph on the editor canvas
  audioNodes,         \* AudioNodeManager.audioNodes: node id -> unit (a Map: the domain is the key set)
  nodeParams,         \* AudioNodeManager.nodeParams: node id -> range table
  created,            \* units constructed so far per node id
  edges,              \* the editor's Edge Store (useEdgesState), in order
  pendingConnect,     \* onConnect's 10 ms timers not yet run
  pendingGate,        \* onConnect's 100 ms timers not yet run
  connectedTriggers,  \* per unit: SequencerNode.connectedTriggers
  connectedNotes,     \* per unit: SequencerNode.connectedNotes
  patches,            \* native connections source -> target port (connecting twice is one connection)
  scalers,            \* bag of Tone.Scale stages source -> scale -> target port
  vcoState,           \* per VCONode: hasCVInput, hasNoteInput, baseFrequency, defaultFrequency,
                      \* lastConnectedInput; per FMSynthNode: currentNote
  toDest,             \* units connected to Tone.Destination
  disposed,           \* units on which dispose() ran
  disposeCalls,       \* per unit: the dispose() calls made on it
  grid,               \* NodeSequencer's grid state, synced to SequencerNode.grid: row -> step -> on
  fired,              \* calls made by the sequencer or keyboard event that has just run
  keyboard,           \* KeyboardNode: isPressed, isHold, lastGateState
  subscribeCalls,     \* connectTrigger calls made directly on a unit, per (source, target)
  console,            \* what the latest AudioNodeManager.connect call made on its own reported, per edge
  template            \* NodeEditor's template refs: isApplyingTemplate, templateEdgesToProcess,
                      \* the 200 ms timers not yet run, the processConnection calls made

vars == <<canvas, audioNodes, nodeParams, created, edges, pendingConnect, pendingGate,
          connectedTriggers, connectedNotes, patches, scalers, vcoState,
          toDest, disposed, disposeCalls, grid, fired, keyboard, subscribeCalls, console, template>>

unitVars == <<keyboard, subscribeCalls, console, grid>>

\* frequencies of VCONode are kept in hundredths of a hertz
DefaultFrequency == 440 * 100

Notes == {"C4", "A4"}

\* Tone.Frequency(note).toFrequency(), equal temperament with A4 = 440 Hz
NoteFrequency(note) ==
  CASE note = "C4" -> 26163
    [] note = "A4" -> 44000

\* the fields a unit's methods keep: the VCONode input flags and base
\* frequency, the FMSynthNode note cache (private currentNote = 'C4'), the
\* NoteToCVNode input signal (in tenths of a hertz) and octave offset
NewVco == [hasCVInput |-> FALSE, hasNoteInput |-> FALSE,
           baseFrequency |-> DefaultFrequency, lastConnectedInput |-> "null",
           currentNote |-> "C4", defaultFrequency |-> DefaultFrequency,
           noteInput |-> 0, octaveOffset |-> 0]

\* the rows of the sequencer grid, one per key
Keys == <<"A4", "C4">>

GridRows == Len(Keys)

\* Array(keys.length).fill(Array(steps).fill(false))
EmptyGrid == [row \in 1..GridRows |-> [col \in 1..GridSteps |-> FALSE]]

\* the template refs of a NodeEditor that has applied no template
NoTemplate == [applying |-> FALSE, edgesToProcess |-> <<>>, timers |-> 0,
               processed |-> <<>>, applications |-> 0]

\* the part of the state the manager and the units' methods work on
World ==
  [audioNodes |-> audioNodes, nodeParams |-> nodeParams,
   connectedTriggers |-> connectedTriggers, connectedNotes |-> connectedNotes,
   patches |-> patches, scalers |-> scalers, vcoState |-> vcoState,
   toDest |-> toDest, disposed |-> disposed, disposeCalls |-> disposeCalls,
   log |-> <<>>]

InitWorld ==
  [audioNodes |-> [x \in {} |-> NoUnit], nodeParams |-> [x \in {} |-> {}],
   connectedTriggers |-> [u \in Unit |-> <<>>], connectedNotes |-> [u \in Unit |-> <<>>],
   patches |-> {}, scalers |-> EmptyBag, vcoState |-> [u \in Unit |-> NewVco],
   toDest |-> {}, disposed |-> {}, disposeCalls |-> [u \in Unit |-> 0], log |-> <<>>]

\* Map.set / Map.delete
MapSet(m, k, v) == [x \in DOMAIN m \cup {k} |-> IF x = k THEN v ELSE m[x]]

MapDelete(m, k) == [x \in DOMAIN m \ {k} |-> m[x]]

Includes(list, x) == \E i \in 1..Len(list) : list[i] = x

Log(w, e, outcome) ==
  [w EXCEPT !.log = Append(@, [edge |-> e.id, outcome |-> outcome])]

\* ---------------------------------------------------------------- unit methods
connectTriggerNoCheck(w, src, target) ==
  [w EXCEPT !.connectedTriggers[src] = Append(@, target)]

\* SequencerNode.connectTrigger
connectTrigger(w, src, target) ==
  IF ~Includes(w.connectedTriggers[src], target)
  THEN [w EXCEPT !.connectedTriggers[src] = Append(@, target)]
  ELSE w

\* KeyboardNode.connectTrigger
keyboardConnectTrigger(w, src, target) ==
  IF ~Includes(w.connectedTriggers[src], target)
  THEN [w EXCEPT !.connectedTriggers[src] = Append(@, target)]
  ELSE w

callConnectTriggerOnTarget(w, src, target) == connectTrigger(w, target, src)

\* sourceNode.connectTrigger(targetNode), dispatched on the source's class
callConnectTrigger(w, src, target) ==
  IF src.node = "kbd" THEN keyboardConnectTrigger(w, src, target)
  ELSE connectTrigger(w, src, target)

connectNote(w, src, target) ==
  IF ~Includes(w.connectedNotes[src], target)
  THEN [w EXCEPT !.connectedNotes[src] = Append(@, target)]
  ELSE w

setCVInputConnectedKeepingBase(w, u, connected) ==
  LET v == [w.vcoState[u] EXCEPT !.hasCVInput = connected]
  IN [w EXCEPT !.vcoState[u] =
        IF connected
        THEN [v EXCEPT !.baseFrequency = 0, !.lastConnectedInput = "cv"]
        ELSE IF v.hasNoteInput
             THEN [v EXCEPT !.lastConnectedInput = "note"]
             ELSE [v EXCEPT !.lastConnectedInput = "null"]]

\* VCONode.setCVInputConnected(connected)
setCVInputConnected(w, u, connected) ==
  LET v == [w.vcoState[u] EXCEPT !.hasCVInput = connected]
  IN [w EXCEPT !.vcoState[u] =
        IF connected
        THEN [v EXCEPT !.baseFrequency = 0, !.lastConnectedInput = "cv"]
        ELSE IF v.hasNoteInput
             THEN [v EXCEPT !.lastConnectedInput = "note"]
             ELSE [v EXCEPT !.baseFrequency = v.defaultFrequency,
                            !.lastConnectedInput = "null"]]

\* VCONode.setNoteInputConnected(connected)
setNoteInputConnected(w, u, connected) ==
  LET v == [w.vcoState[u] EXCEPT !.hasNoteInput = connected]
  IN [w EXCEPT !.vcoState[u] =
        IF connected
        THEN [v EXCEPT !.baseFrequency = 0, !.lastConnectedInput = "note"]
        ELSE IF v.hasCVInput
             THEN [v EXCEPT !.lastConnectedInput = "cv"]
             ELSE [v EXCEPT !.baseFrequency = v.defaultFrequency,
                            !.lastConnectedInput = "null"]]

setBaseFrequencyAlways(w, u, value) ==
  [w EXCEPT !.vcoState[u] = [@ EXCEPT !.baseFrequency = value, !.defaultFrequency = value]]

\* VCONode.setBaseFrequency(value): ignored while CV In or Note In is connected
setBaseFrequency(w, u, value) ==
  IF ~w.vcoState[u].hasCVInput /\ ~w.vcoState[u].hasNoteInput
  THEN [w EXCEPT !.vcoState[u] = [@ EXCEPT !.baseFrequency = value, !.defaultFrequency = value]]
  ELSE w

\* VCONode.setNote sets the oscillator's base frequency; FMSynthNode.setNote
\* caches the note (this.currentNote = note)
setNote(w, u, note) ==
  IF HasCurrentNote(u)
  THEN [w EXCEPT !.vcoState[u].currentNote = note]
  ELSE [w EXCEPT !.vcoState[u].baseFrequency = NoteFrequency(note)]

\* the note a trigger method of the unit hands to its synth:
\* this.synth.triggerAttackRelease(this.currentNote, ...); an envelope or an
\* oscillator is triggered without a note
Sounded(w, u) == IF HasCurrentNote(u) THEN w.vcoState[u].currentNote ELSE Undefined

SoundedAll(w, targets) == [i \in 1..Len(targets) |-> Sounded(w, targets[i])]

\* sourceNode.connect(target port)
ConnectPatch(w, src, dst, port) ==
  [w EXCEPT !.patches = @ \cup {[src |-> src, dst |-> dst, port |-> port]}]

ConnectScaledSwapped(w, src, dst, port, def) ==
  [w EXCEPT !.scalers = @ (+) SetToBag({[src |-> src, dst |-> dst, port |-> port,
                                         min |-> def.max, max |-> def.min]})]

\* new Tone.Scale(min, max); sourceNode.connect(scale); scale.connect(target port)
ConnectScaled(w, src, dst, port, def) ==
  [w EXCEPT !.scalers = @ (+) SetToBag({[src |-> src, dst |-> dst, port |-> port,
                                         min |-> def.min, max |-> def.max]})]

\* unit.disconnect(): every connection leaving the unit's output is removed;
\* a scale stage it fed stays connected to its target, without input
Disconnect(w, u) ==
  LET b == w.scalers
      orphan(r) == IF r.src = u THEN [r EXCEPT !.src = NoUnit] ELSE r
      dom == {orphan(r) : r \in DOMAIN b}
      fed(r) == [r EXCEPT !.src = u]
      count(r) == (IF r \in DOMAIN b /\ r.src # u THEN b[r] ELSE 0)
                  + (IF r.src = NoUnit /\ fed(r) \in DOMAIN b THEN b[fed(r)] ELSE 0)
  IN [w EXCEPT !.patches = {p \in @ : p.src # u},
               !.scalers = [r \in dom |-> count(r)],
               !.toDest = @ \ {u}]

\* unit.dispose(): the unit's own connections go (patches and scalers are
\* kept for non-disposed units only; a scale stage the unit fed stays
\* connected to its target); SequencerNode.dispose empties connectedTriggers
Dispose(w, u) ==
  LET w1 == Disconnect(w, u)
  IN [w1 EXCEPT !.disposed = @ \cup {u},
                !.disposeCalls[u] = @ + 1,
                !.patches = {p \in @ : p.dst # u},
                !.scalers = [r \in {q \in DOMAIN @ : q.dst # u} |-> @[r]],
                !.connectedTriggers[u] = IF u.node = "seq" THEN <<>> ELSE @]

\* ---------------------------------------------------------------- AudioNodeManager
\* the VCO input-state calls connect makes before wiring a named parameter
MarkInputConnected(w, targetNode, targetProperty) ==
  IF targetProperty = "frequency" /\ HasInputFlags(targetNode)
  THEN setCVInputConnected(w, targetNode, TRUE)
  ELSE IF targetProperty = "note" /\ HasInputFlags(targetNode)
  THEN setNoteInputConnected(w, targetNode, TRUE)
  ELSE w

ConnectNodeUnwired(w, e, sourceNode, targetNode, port) ==
  IF AcceptsInput(targetNode)
  THEN Log(w, e, "Wired")
  ELSE Log(w, e, "Error")

\* sourceNode.connect(targetNode) / sourceNode.connect(targetNode.input): the
\* underlying connect throws on a target without inputs, caught by connect
ConnectNode(w, e, sourceNode, targetNode, port) ==
  IF AcceptsInput(targetNode)
  THEN Log(ConnectPatch(w, sourceNode, targetNode, port), e, "Wired")
  ELSE Log(w, e, "Error")

\* the CV branch for sourceProperty === 'output'
ConnectCVOutput(w, e, sourceNode, targetNode, targetProperty) ==
  IF targetProperty = Undefined THEN Log(w, e, "Rejected")
  ELSE LET w1 == MarkInputConnected(w, targetNode, targetProperty)
           targetProp == PropOf(targetNode, targetProperty)
           targetParams == IF e.target \in DOMAIN w.nodeParams
                           THEN w.nodeParams[e.target] ELSE {}
       IN IF targetProp # "absent"
          THEN IF HasParamDef(targetParams, targetProperty)
               THEN IF targetProp = "connectable"
                    THEN Log(ConnectScaled(w1, sourceNode, targetNode, targetProperty,
                                           ParamDef(targetParams, targetProperty)), e, "Wired")
                    ELSE Log(w1, e, "Error")
               ELSE IF targetProp = "connectable"
                    THEN Log(ConnectPatch(w1, sourceNode, targetNode, targetProperty), e, "Wired")
                    ELSE Log(w1, e, "Rejected")
          ELSE ConnectNode(w1, e, sourceNode, targetNode, "node")

ConnectParamIgnoringRanges(w, e, sourceNode, targetNode, targetType, targetProperty) ==
  IF targetProperty = Undefined THEN Log(w, e, "Rejected")
  ELSE IF targetProperty = "input"
  THEN ConnectNode(w, e, sourceNode, targetNode, "input")
  ELSE LET w1 == MarkInputConnected(w, targetNode, targetProperty)
       IN IF PropOf(targetNode, targetProperty) = "connectable"
          THEN Log(ConnectPatch(w1, sourceNode, targetNode, targetProperty), e, "Wired")
          ELSE Log(w1, e, "Rejected")

\* the Note/CV branch for a named source property
ConnectParam(w, e, sourceNode, targetNode, targetType, targetProperty) ==
  IF targetProperty = Undefined THEN Log(w, e, "Rejected")
  ELSE IF targetProperty = "input"
  THEN ConnectNode(w, e, sourceNode, targetNode, "input")
  ELSE LET w1 == MarkInputConnected(w, targetNode, targetProperty)
           targetParams == IF e.target \in DOMAIN w.nodeParams
                           THEN w.nodeParams[e.target] ELSE {}
       IN IF PropOf(targetNode, targetProperty) = "connectable"
          THEN IF targetType = "note"
               THEN Log(ConnectPatch(w1, sourceNode, targetNode, targetProperty), e, "Wired")
               ELSE IF HasParamDef(targetParams, targetProperty)
               THEN Log(ConnectScaled(w1, sourceNode, targetNode, targetProperty,
                                      ParamDef(targetParams, targetProperty)), e, "Wired")
               ELSE Log(ConnectPatch(w1, sourceNode, targetNode, targetProperty), e, "Wired")
          ELSE Log(w1, e, "Rejected")

connectNoteOutputAsCV(w, e) ==
  IF e.source \notin DOMAIN w.audioNodes \/ e.target \notin DOMAIN w.audioNodes
  THEN Log(w, e, "Deferred")
  ELSE LET sourceNode == w.audioNodes[e.source]
           targetNode == w.audioNodes[e.target]
           targetType == getSignalType(e.targetHandle)
           targetProperty == e.data.targetProperty
           sourceProperty == e.data.sourceProperty
       IN IF targetType = "gate"
          THEN IF HasConnectTrigger(sourceNode)
               THEN Log(callConnectTrigger(w, sourceNode, targetNode), e, "Wired")
               ELSE Log(w, e, "Rejected")
          ELSE IF targetType \in {"note", "cv"}
          THEN IF sourceProperty = "output"
               THEN ConnectCVOutput(w, e, sourceNode, targetNode, targetProperty)
               ELSE ConnectParam(w, e, sourceNode, targetNode, targetType, targetProperty)
          ELSE IF targetType = "audio"
          THEN ConnectNode(w, e, sourceNode, targetNode, "node")
          ELSE Log(w, e, "Rejected")

\* AudioNodeManager.connect(edge)
connect(w, e) ==
  IF e.source \notin DOMAIN w.audioNodes \/ e.target \notin DOMAIN w.audioNodes
  THEN Log(w, e, "Deferred")
  ELSE LET sourceNode == w.audioNodes[e.source]
           targetNode == w.audioNodes[e.target]
           targetType == getSignalType(e.targetHandle)
           targetProperty == e.data.targetProperty
           sourceProperty == e.data.sourceProperty
       IN IF targetType = "gate"
          THEN IF HasConnectTrigger(sourceNode)
               THEN Log(callConnectTrigger(w, sourceNode, targetNode), e, "Wired")
               ELSE Log(w, e, "Rejected")
          ELSE IF targetType \in {"note", "cv"}
          THEN IF sourceProperty = "output"
               THEN IF targetType = "cv"
                    THEN ConnectCVOutput(w, e, sourceNode, targetNode, targetProperty)
                    ELSE Log(w, e, "Rejected")
               ELSE ConnectParam(w, e, sourceNode, targetNode, targetType, targetProperty)
          ELSE IF targetType = "audio"
          THEN ConnectNode(w, e, sourceNode, targetNode, "node")
          ELSE Log(w, e, "Rejected")

RelevantEdgesAll(es, nodeId) == es

RelevantEdgesTargetOnly(es, nodeId) ==
  SelectSeq(es, LAMBDA e : e.target = nodeId)

\* edges.filter(edge => edge.source === nodeId || edge.target === nodeId)
RelevantEdges(es, nodeId) ==
  SelectSeq(es, LAMBDA e : e.source = nodeId \/ e.target = nodeId)

RECURSIVE ConnectAllAborting(_, _)
ConnectAllAborting(w, es) ==
  IF es = <<>> THEN w
  ELSE LET w1 == connect(w, Head(es))
       IN IF w1.log[Len(w1.log)].outcome = "Error" THEN w1
          ELSE ConnectAllAborting(w1, Tail(es))

\* relevantEdges.forEach(edge => this.connect(edge)): connect catches what
\* the wiring of an edge throws
RECURSIVE ConnectAll(_, _)
ConnectAll(w, es) ==
  IF es = <<>> THEN w ELSE ConnectAll(connect(w, Head(es)), Tail(es))

\* if (params) this.nodeParams.set(nodeId, params)
StoreParams(w, nodeId, params) ==
  IF params.given
  THEN [w EXCEPT !.nodeParams = MapSet(@, nodeId, params.table)]
  ELSE w

registerAudioNodeParamsLate(w, nodeId, audioNode, es, params) ==
  LET w2 == [w EXCEPT !.audioNodes = MapSet(@, nodeId, audioNode)]
      w3 == ConnectAll(w2, RelevantEdges(es, nodeId))
  IN StoreParams(w3, nodeId, params)

registerAudioNodeStoreLate(w, nodeId, audioNode, es, params) ==
  LET w1 == StoreParams(w, nodeId, params)
      w3 == ConnectAll(w1, RelevantEdges(es, nodeId))
  IN [w3 EXCEPT !.audioNodes = MapSet(@, nodeId, audioNode)]

registerAudioNodeUnlessThrown(w, nodeId, audioNode, es, params) ==
  LET w1 == StoreParams(w, nodeId, params)
      w2 == [w1 EXCEPT !.audioNodes = MapSet(@, nodeId, audioNode)]
      w3 == ConnectAll(w2, RelevantEdges(es, nodeId))
  IN IF nodeId = "toDestination" /\ \A i \in 1..Len(w3.log) : w3.log[i].outcome = "Wired"
     THEN [w3 EXCEPT !.toDest = @ \cup {audioNode}]
     ELSE w3

\* AudioNodeManager.registerAudioNode(nodeId, audioNode, edges, params)
registerAudioNode(w, nodeId, audioNode, es, params) ==
  LET w1 == StoreParams(w, nodeId, params)
      w2 == [w1 EXCEPT !.audioNodes = MapSet(@, nodeId, audioNode)]
      w3 == ConnectAll(w2, RelevantEdges(es, nodeId))
  IN IF nodeId = "toDestination"
     THEN [w3 EXCEPT !.toDest = @ \cup {audioNode}]
     ELSE w3

\* AudioNodeManager.getAudioNode(nodeId)
getAudioNode(w, nodeId) ==
  IF nodeId \in DOMAIN w.audioNodes THEN w.audioNodes[nodeId] ELSE NoUnit

\* AudioNodeManager.deleteAudioNode(nodeId)
deleteAudioNode(w, nodeId) ==
  IF nodeId \in DOMAIN w.audioNodes
  THEN LET audioNode == w.audioNodes[nodeId]
           w1 == Dispose(Disconnect(w, audioNode), audioNode)
       IN [w1 EXCEPT !.audioNodes = MapDelete(@, nodeId)]
  ELSE w

\* ---------------------------------------------------------------- operations
NoFire == [event |-> "none", src |-> NoUnit, note |-> "", setNote |-> <<>>, trigger |-> <<>>,
           sounded |-> <<>>]

\* a new KeyboardNode: gateOutput = new Tone.Gain(0)
NewKeyboard == [isPressed |-> FALSE, isHold |-> FALSE, lastGateState |-> FALSE,
                gateOutput |-> 0]

SetWorld(w) ==
  /\ audioNodes' = w.audioNodes
  /\ nodeParams' = w.nodeParams
  /\ connectedTriggers' = w.connectedTriggers
  /\ connectedNotes' = w.connectedNotes
  /\ patches' = w.patches
  /\ scalers' = w.scalers
  /\ vcoState' = w.vcoState
  /\ toDest' = w.toDest
  /\ disposed' = w.disposed
  /\ disposeCalls' = w.disposeCalls

InitEditor ==
  /\ audioNodes = InitWorld.audioNodes
  /\ nodeParams = InitWorld.nodeParams
  /\ connectedTriggers = InitWorld.connectedTriggers
  /\ connectedNotes = InitWorld.connectedNotes
  /\ patches = InitWorld.patches
  /\ scalers = InitWorld.scalers
  /\ vcoState = InitWorld.vcoState
  /\ toDest = InitWorld.toDest
  /\ disposed = InitWorld.disposed
  /\ disposeCalls = InitWorld.disposeCalls
  /\ created = [id \in NodeIds |-> 0]
  /\ edges = <<>>
  /\ pendingConnect = {}
  /\ pendingGate = {}
  /\ fired = NoFire
  /\ keyboard = NewKeyboard
  /\ grid = EmptyGrid
  /\ subscribeCalls = [p \in {} |-> 0]
  /\ console = <<>>
  /\ template = NoTemplate

\* a node component's construction effect: its cleanup disposes the unit it
\* held, then a new unit is constructed; NodeVCO carries the previous unit's
\* input flags over to the new one
Construct(w, id, u) ==
  IF id \in DOMAIN w.audioNodes
  THEN LET previousNode == w.audioNodes[id]
           hadCVInput == w.vcoState[previousNode].hasCVInput
           hadNoteInput == w.vcoState[previousNode].hasNoteInput
           w1 == Dispose(w, previousNode)
           w2 == IF id = "vco" /\ hadCVInput THEN setCVInputConnected(w1, u, TRUE) ELSE w1
       IN IF id = "vco" /\ hadNoteInput THEN setNoteInputConnected(w2, u, TRUE) ELSE w2
  ELSE w

\* a node component registers its unit: a unit it has just constructed
\* (fresh) or the unit it registered before (its registration effect ran again);
\* while a template is being applied the editor's registerAudioNode also
\* sets the 200 ms timer of the deferred pass
Register(id, fresh, params) ==
  /\ IF fresh THEN created[id] < MaxGen ELSE id \in DOMAIN audioNodes
  /\ LET u == IF fresh THEN [node |-> id, gen |-> created[id] + 1] ELSE audioNodes[id]
         w0 == IF fresh THEN Construct(World, id, u) ELSE World
         w == registerAudioNode(w0, id, u, edges, params)
     IN /\ BagCardinality(w.scalers) <= MaxScalers
        /\ SetWorld(w)
        /\ created' = IF fresh THEN [created EXCEPT ![id] = @ + 1] ELSE created
  /\ template' = IF template.applying /\ Len(template.edgesToProcess) > 0
                 THEN [template EXCEPT !.timers = @ + 1]
                 ELSE template
  /\ fired' = NoFire
  /\ UNCHANGED <<unitVars, canvas, edges, pendingConnect, pendingGate>>

\* NodeEditor.onConnect: the edge enters the store and the two timers are
\* set (the 100 ms timer acts on gate edges only)
OnConnect(c) ==
  LET newEdge == NewEdge(c)
  IN /\ ~Includes(edges, newEdge)
     /\ Cardinality(pendingConnect \cup pendingGate) < MaxPending
     /\ edges' = Append(edges, newEdge)
     /\ pendingConnect' = pendingConnect \cup {newEdge}
     /\ pendingGate' = IF getSignalType(c.targetHandle) = "gate"
                       THEN pendingGate \cup {newEdge} ELSE pendingGate
     /\ fired' = NoFire
     /\ UNCHANGED <<unitVars, template, canvas, audioNodes, nodeParams, created, connectedTriggers, connectedNotes,
                    patches, scalers, vcoState, toDest, disposed, disposeCalls>>

\* the 10 ms timer of onConnect: audioNodeManager.connect(newEdge)
TimerConnect(e) ==
  /\ e \in pendingConnect
  /\ LET w == connect(World, e)
     IN /\ BagCardinality(w.scalers) <= MaxScalers
        /\ SetWorld(w)
  /\ pendingConnect' = pendingConnect \ {e}
  /\ fired' = NoFire
  /\ UNCHANGED <<unitVars, template, canvas, created, edges, pendingGate>>

\* the 100 ms timer of onConnect: connectTrigger on the registered source
TimerGate(e) ==
  /\ e \in pendingGate
  /\ e \notin pendingConnect
  /\ LET sourceNode == getAudioNode(World, e.source)
         targetNode == getAudioNode(World, e.target)
         w == IF sourceNode # NoUnit /\ targetNode # NoUnit /\ HasConnectTrigger(sourceNode)
              THEN callConnectTrigger(World, sourceNode, targetNode)
              ELSE World
     IN /\ SetWorld(w)
  /\ pendingGate' = pendingGate \ {e}
  /\ fired' = NoFire
  /\ UNCHANGED <<unitVars, template, canvas, created, edges, pendingConnect>>

\* an edge is removed from the store and NodeEditor.onEdgesDelete runs
OnEdgesDelete(e) ==
  /\ Includes(edges, e)
  /\ edges' = SelectSeq(edges, LAMBDA x : x.id # e.id)
  /\ LET sourceNode == getAudioNode(World, e.source)
         w == IF sourceNode # NoUnit THEN Disconnect(World, sourceNode) ELSE World
     IN /\ SetWorld(w)
  /\ fired' = NoFire
  /\ UNCHANGED <<unitVars, template, canvas, created, pendingConnect, pendingGate>>

\* the user deletes a node: NodeEditor.onNodesDelete runs, the node leaves
\* the canvas and its component unmounts, and the component's effect cleanup
\* disposes the unit its ref holds
OnNodesDelete(id) ==
  /\ id \in DOMAIN audioNodes
  /\ SetWorld(Dispose(deleteAudioNode(World, id), audioNodes[id]))
  /\ fired' = NoFire
  /\ UNCHANGED <<unitVars, template, canvas, created, edges, pendingConnect, pendingGate>>

RECURSIVE SetNoteAll(_, _, _)
SetNoteAll(w, targets, note) ==
  IF targets = <<>> THEN w
  ELSE SetNoteAll(setNote(w, Head(targets), note), Tail(targets), note)

StepEventGateFirst(src, note) ==
  LET noteCalls == SelectSeq(connectedNotes[src], LAMBDA t : HasSetNote(t))
      trigCalls == SelectSeq(connectedTriggers[src], LAMBDA t : HasTriggerAttackRelease(t))
  IN /\ SetWorld(SetNoteAll(World, noteCalls, note))
     /\ fired' = [event |-> "step", src |-> src, note |-> note,
                  setNote |-> noteCalls, trigger |-> trigCalls,
                  sounded |-> SoundedAll(World, trigCalls)]

\* the Tone.Sequence callback of a sequencer unit for one active cell:
\* setNote on the note targets, then triggerAttackRelease on the trigger targets
StepEvent(src, note) ==
  LET noteCalls == SelectSeq(connectedNotes[src], LAMBDA t : HasSetNote(t))
      trigCalls == SelectSeq(connectedTriggers[src], LAMBDA t : HasTriggerAttackRelease(t))
      afterNotes == SetNoteAll(World, noteCalls, note)
  IN /\ SetWorld(afterNotes)
     /\ fired' = [event |-> "step", src |-> src, note |-> note,
                  setNote |-> noteCalls, trigger |-> trigCalls,
                  sounded |-> SoundedAll(afterNotes, trigCalls)]

\* a step of the registered sequencer while the transport runs
FireStep(note) ==
  /\ "seq" \in DOMAIN audioNodes
  /\ audioNodes["seq"] \notin disposed
  /\ StepEvent(audioNodes["seq"], note)
  /\ UNCHANGED <<unitVars, template, canvas, created, edges, pendingConnect, pendingGate>>

Next ==
  \/ \E id \in CanvasNodes(canvas), fresh \in BOOLEAN : \E params \in ParamChoices(id) :
        Register(id, fresh, params)
  \/ \E c \in CanvasConnections(canvas) : OnConnect(c)
  \/ \E e \in EdgeUniverse : TimerConnect(e)
  \/ \E e \in EdgeUniverse : TimerGate(e)
  \/ \E e \in EdgeUniverse : OnEdgesDelete(e)
  \/ \E id \in NodeIds : OnNodesDelete(id)
  \/ \E note \in Notes : FireStep(note)

Init == canvas \in Canvases /\ InitEditor

Spec == Init /\ [][Next]_vars

\* the sequencer patch: a sequencer driving an envelope and an oscillator
InitSequencer == canvas = "sequencer" /\ InitEditor

SpecSequencer == InitSequencer /\ [][Next]_vars

\* ---------------------------------------------------------------- the units on their own
\* direct connectTrigger calls made on one (source, target) pair
MaxCalls == 3

Sources == {[node |-> "seq", gen |-> 1], [node |-> "kbd", gen |-> 1]}

Targets == {[node |-> "env", gen |-> 1], [node |-> "env", gen |-> 2]}

TheKeyboard == [node |-> "kbd", gen |-> 1]

editorVars == <<canvas, audioNodes, nodeParams, created, edges, pendingConnect, pendingGate, console,
                template, grid>>

InitFanout ==
  /\ canvas = "units"
  /\ audioNodes = InitWorld.audioNodes
  /\ nodeParams = InitWorld.nodeParams
  /\ connectedTriggers = InitWorld.connectedTriggers
  /\ connectedNotes = InitWorld.connectedNotes
  /\ patches = InitWorld.patches
  /\ scalers = InitWorld.scalers
  /\ vcoState = InitWorld.vcoState
  /\ toDest = InitWorld.toDest
  /\ disposed = InitWorld.disposed
  /\ disposeCalls = InitWorld.disposeCalls
  /\ created = [id \in NodeIds |-> 0]
  /\ edges = <<>>
  /\ pendingConnect = {}
  /\ pendingGate = {}
  /\ fired = NoFire
  /\ keyboard = NewKeyboard
  /\ grid = EmptyGrid
  /\ subscribeCalls = [p \in Sources \X Targets |-> 0]
  /\ console = <<>>
  /\ template = NoTemplate

\* source.connectTrigger(target)
CallConnectTrigger(src, target) ==
  /\ subscribeCalls[<<src, target>>] < MaxCalls
  /\ SetWorld(callConnectTrigger(World, src, target))
  /\ subscribeCalls' = [subscribeCalls EXCEPT ![<<src, target>>] = @ + 1]
  /\ fired' = NoFire
  /\ UNCHANGED <<editorVars, keyboard>>

SequencerStep(note) ==
  /\ StepEvent([node |-> "seq", gen |-> 1], note)
  /\ UNCHANGED <<editorVars, keyboard, subscribeCalls>>

updateGateKeyOnly(k, note, noteCalls) ==
  LET isGateActive == k.isPressed
      targets == connectedTriggers[TheKeyboard]
      trigCalls == SelectSeq(targets, LAMBDA t : HasTriggerAttack(t))
      afterNotes == SetNoteAll(World, noteCalls, note)
  IN IF isGateActive # k.lastGateState
     THEN /\ keyboard' = [k EXCEPT !.lastGateState = isGateActive,
                                   !.gateOutput = IF isGateActive THEN 1 ELSE 0]
          /\ fired' = IF isGateActive
                      THEN [event |-> "gateHigh", src |-> TheKeyboard, note |-> note,
                            setNote |-> noteCalls, trigger |-> trigCalls,
                            sounded |-> SoundedAll(afterNotes, trigCalls)]
                      ELSE [event |-> "gateLow", src |-> TheKeyboard, note |-> note,
                            setNote |-> noteCalls, trigger |-> trigCalls,
                            sounded |-> <<>>]
     ELSE /\ keyboard' = k
          /\ fired' = [event |-> "none", src |-> TheKeyboard, note |-> note,
                       setNote |-> noteCalls, trigger |-> <<>>, sounded |-> <<>>]

updateGateAlways(k, note, noteCalls) ==
  LET isGateActive == k.isPressed \/ k.isHold
      targets == connectedTriggers[TheKeyboard]
      trigCalls == SelectSeq(targets, LAMBDA t : HasTriggerAttack(t))
      afterNotes == SetNoteAll(World, noteCalls, note)
  IN IF TRUE
     THEN /\ keyboard' = [k EXCEPT !.lastGateState = isGateActive,
                                   !.gateOutput = IF isGateActive THEN 1 ELSE 0]
          /\ fired' = IF isGateActive
                      THEN [event |-> "gateHigh", src |-> TheKeyboard, note |-> note,
                            setNote |-> noteCalls, trigger |-> trigCalls,
                            sounded |-> SoundedAll(afterNotes, trigCalls)]
                      ELSE [event |-> "gateLow", src |-> TheKeyboard, note |-> note,
                            setNote |-> noteCalls, trigger |-> trigCalls,
                            sounded |-> <<>>]
     ELSE /\ keyboard' = k
          /\ fired' = [event |-> "none", src |-> TheKeyboard, note |-> note,
                       setNote |-> noteCalls, trigger |-> <<>>, sounded |-> <<>>]

\* KeyboardNode.updateGate after isPressed / isHold were set as in k
updateGate(k, note, noteCalls) ==
  LET isGateActive == k.isPressed \/ k.isHold
      targets == connectedTriggers[TheKeyboard]
      trigCalls == SelectSeq(targets, LAMBDA t : HasTriggerAttack(t))
      afterNotes == SetNoteAll(World, noteCalls, note)
  IN IF isGateActive # k.lastGateState
     THEN /\ keyboard' = [k EXCEPT !.lastGateState = isGateActive,
                                   !.gateOutput = IF isGateActive THEN 1 ELSE 0]
          /\ fired' = IF isGateActive
                      THEN [event |-> "gateHigh", src |-> TheKeyboard, note |-> note,
                            setNote |-> noteCalls, trigger |-> trigCalls,
                            sounded |-> SoundedAll(afterNotes, trigCalls)]
                      ELSE [event |-> "gateLow", src |-> TheKeyboard, note |-> note,
                            setNote |-> noteCalls, trigger |-> trigCalls,
                            sounded |-> <<>>]
     ELSE /\ keyboard' = k
          /\ fired' = [event |-> "none", src |-> TheKeyboard, note |-> note,
                       setNote |-> noteCalls, trigger |-> <<>>, sounded |-> <<>>]

\* KeyboardNode.triggerAttack(note)
KeyAttack(note) ==
  LET noteCalls == SelectSeq(connectedNotes[TheKeyboard], LAMBDA t : HasSetNote(t))
  IN /\ SetWorld(SetNoteAll(World, noteCalls, note))
     /\ updateGate([keyboard EXCEPT !.isPressed = TRUE], note, noteCalls)
     /\ UNCHANGED <<editorVars, subscribeCalls>>

\* KeyboardNode.triggerRelease()
KeyRelease ==
  /\ updateGate([keyboard EXCEPT !.isPressed = FALSE], "", <<>>)
  /\ SetWorld(World)
  /\ UNCHANGED <<editorVars, subscribeCalls>>

\* KeyboardNode.setHold(enabled)
SetHold(enabled) ==
  /\ updateGate([keyboard EXCEPT !.isHold = enabled], "", <<>>)
  /\ SetWorld(World)
  /\ UNCHANGED <<editorVars, subscribeCalls>>

NextFanout ==
  \/ \E src \in Sources, target \in Targets : CallConnectTrigger(src, target)
  \/ \E note \in Notes : SequencerStep(note)
  \/ \E note \in Notes : KeyAttack(note)
  \/ KeyRelease
  \/ \E enabled \in BOOLEAN : SetHold(enabled)

SpecFanout == InitFanout /\ [][NextFanout]_vars

\* C1: once connectTrigger(target) was called on a sequencer or keyboard
\* unit, however many times, the target is in that unit's trigger list
\* exactly once and every gate event of the unit calls the target's trigger
\* method exactly once.
Count(list, x) == Cardinality({i \in 1..Len(list) : list[i] = x})

C1_SubscribedOnce ==
  \A src \in Sources, target \in Targets :
    subscribeCalls[<<src, target>>] >= 1 =>
      /\ Count(connectedTriggers[src], target) = 1
      /\ (fired.src = src /\ fired.event \in {"step", "gateHigh", "gateLow"}
            => Count(fired.trigger, target) = 1)

C1_Witness ==
  \E target \in Targets :
    /\ subscribeCalls[<<TheKeyboard, target>>] >= 2
    /\ subscribeCalls[<<[node |-> "seq", gen |-> 1], target>>] = MaxCalls
    /\ fired.event = "step"
    /\ Count(fired.trigger, target) = 1

\* ---------------------------------------------------------------- registration order
\* the params each node component passes when it registers its unit
ComponentParams(id) ==
  CASE id = "vco" -> WithParams(VcoRanges)
    [] id = "lfo" -> WithParams(LfoRanges)
    [] id = "filter" -> WithParams(FilterRanges)
    [] OTHER -> NoParams

\* the edge stores over a set of connections: every subset in every order
EdgeStores(cs) ==
  LET es == {NewEdge(c) : c \in cs}
  IN {s \in UNION {[1..k -> es] : k \in 0..Cardinality(es)} :
        \A i, j \in 1..Len(s) : i # j => s[i] # s[j]}

InitOrder ==
  /\ canvas \in Canvases \cup {"sequencer", "full"}
  /\ audioNodes = InitWorld.audioNodes
  /\ nodeParams = InitWorld.nodeParams
  /\ connectedTriggers = InitWorld.connectedTriggers
  /\ connectedNotes = InitWorld.connectedNotes
  /\ patches = InitWorld.patches
  /\ scalers = InitWorld.scalers
  /\ vcoState = InitWorld.vcoState
  /\ toDest = InitWorld.toDest
  /\ disposed = InitWorld.disposed
  /\ disposeCalls = InitWorld.disposeCalls
  /\ created = [id \in NodeIds |-> 0]
  /\ edges \in EdgeStores(CanvasConnections(canvas))
  /\ pendingConnect = {}
  /\ pendingGate = {}
  /\ fired = NoFire
  /\ keyboard = NewKeyboard
  /\ grid = EmptyGrid
  /\ subscribeCalls = [p \in {} |-> 0]
  /\ console = <<>>
  /\ template = NoTemplate

\* a node component mounts and registers its first unit
RegisterOnce(id) ==
  /\ created[id] = 0
  /\ Register(id, TRUE, ComponentParams(id))

NextOrder == \E id \in CanvasNodes(canvas) : RegisterOnce(id)

SpecOrder == InitOrder /\ [][NextOrder]_vars

RECURSIVE RegisterInOrder(_, _, _)
RegisterInOrder(w, order, es) ==
  IF order = <<>> THEN w
  ELSE RegisterInOrder(
         registerAudioNode(w, Head(order), [node |-> Head(order), gen |-> 1], es,
                           ComponentParams(Head(order))),
         Tail(order), es)

\* one fixed order of the nodes of a canvas
ReferenceOrder(c) ==
  LET ns == CanvasNodes(c)
  IN CHOOSE s \in [1..Cardinality(ns) -> ns] : \A n \in ns : \E i \in DOMAIN s : s[i] = n

Elements(list) == {list[i] : i \in 1..Len(list)}

LiveConnections(w) ==
  [patches |-> w.patches,
   scalers |-> w.scalers,
   triggers |-> [u \in Unit |-> Elements(w.connectedTriggers[u])],
   notes |-> [u \in Unit |-> Elements(w.connectedNotes[u])]]

AllRegistered == \A id \in CanvasNodes(canvas) : id \in DOMAIN audioNodes

\* C2: for a fixed edge store and one unit per node id, once every node has
\* registered, the live connections (direct patches, scaled patches, event
\* subscriptions) are the same whatever the order of the registrations: they
\* equal those of one fixed reference order.
C2_OrderIndependent ==
  AllRegistered =>
    LiveConnections(World)
      = LiveConnections(RegisterInOrder(InitWorld, ReferenceOrder(canvas), edges))

C2_Witness ==
  /\ AllRegistered
  /\ canvas = "full"
  /\ Len(edges) = Cardinality(Connections)
  /\ Cardinality(patches) = 2
  /\ BagCardinality(scalers) = 1
  /\ connectedTriggers[[node |-> "seq", gen |-> 1]] = <<[node |-> "env", gen |-> 1]>>

\* ---------------------------------------------------------------- live effect of an edge
\* the port of the target an edge is wired into
Port(e) ==
  IF getSignalType(e.targetHandle) = "audio" THEN "node" ELSE e.data.targetProperty

\* event subscriptions of target unit t in source unit s for the edge's type
Subscriptions(e, s, t) ==
  CASE getSignalType(e.targetHandle) = "gate" -> Count(connectedTriggers[s], t)
    [] getSignalType(e.targetHandle) = "note" -> Count(connectedNotes[s], t)
    [] OTHER -> 0

\* direct patches from s into the edge's port of t
DirectPatches(e, s, t) ==
  IF getSignalType(e.targetHandle) = "gate" THEN 0
  ELSE Cardinality({p \in patches : p.src = s /\ p.dst = t /\ p.port = Port(e)})

RECURSIVE SumCopies(_, _)
SumCopies(b, rs) ==
  IF rs = {} THEN 0
  ELSE LET r == CHOOSE x \in rs : TRUE IN b[r] + SumCopies(b, rs \ {r})

\* scale stages fed by s that feed the edge's port of t
ScalerStages(e, s, t) ==
  SumCopies(scalers, {r \in DOMAIN scalers : r.src = s /\ r.dst = t /\ r.port = Port(e)})

LiveCount(e, s, t) == Subscriptions(e, s, t) + DirectPatches(e, s, t) + ScalerStages(e, s, t)

FirstUnit(id) == [node |-> id, gen |-> 1]

BothRegistered(e) == e.source \in DOMAIN audioNodes /\ e.target \in DOMAIN audioNodes

\* C3: while an endpoint of an edge of the store is not registered, the
\* resolutions attempted for it (by the registration of the other endpoint)
\* have created no connection and no subscription; once the missing endpoint
\* has registered, the edge has exactly one live connection.
C3_DeferredThenOnce ==
  \A i \in 1..Len(edges) :
    LiveCount(edges[i], FirstUnit(edges[i].source), FirstUnit(edges[i].target))
      = IF BothRegistered(edges[i]) THEN 1 ELSE 0

C3_Witness ==
  /\ canvas = "full"
  /\ Len(edges) = Cardinality(Connections)
  /\ AllRegistered
  /\ \A i \in 1..Len(edges) :
       LiveCount(edges[i], FirstUnit(edges[i].source), FirstUnit(edges[i].target)) = 1

\* C6: when a registration replaces the unit registered under id X (u1) by
\* another unit (u2), getAudioNode(X) is u2 afterwards, the call wires
\* nothing new to u1, and every edge of X with both endpoints registered is
\* wired to u2.
NewlyWired(u) ==
  \/ \E p \in patches' \ patches : p.src = u \/ p.dst = u
  \/ \E r \in DOMAIN scalers' :
       /\ r.src = u \/ r.dst = u
       /\ scalers'[r] > (IF r \in DOMAIN scalers THEN scalers[r] ELSE 0)
  \/ \E s \in Unit : Count(connectedTriggers'[s], u) > Count(connectedTriggers[s], u)
  \/ \E s \in Unit : Count(connectedNotes'[s], u) > Count(connectedNotes[s], u)
  \/ Len(connectedTriggers'[u]) > Len(connectedTriggers[u])
  \/ Len(connectedNotes'[u]) > Len(connectedNotes[u])

Replaced(id) ==
  /\ id \in DOMAIN audioNodes
  /\ id \in DOMAIN audioNodes'
  /\ audioNodes'[id] # audioNodes[id]

WiredToCurrent(e) ==
  LiveCount(e, getAudioNode(World, e.source), getAudioNode(World, e.target)) >= 1

C6_ResolvesAgainstCurrentUnit ==
  [][\A id \in NodeIds :
       Replaced(id) =>
         /\ getAudioNode(World, id)' = [node |-> id, gen |-> created'[id]]
         /\ ~NewlyWired(audioNodes[id])
         /\ \A i \in 1..Len(edges) :
              (edges[i].source = id \/ edges[i].target = id) /\ BothRegistered(edges[i])'
                => WiredToCurrent(edges[i])']_vars

C6_Witness ==
  \E i \in 1..Len(edges) :
    /\ BothRegistered(edges[i])
    /\ audioNodes[edges[i].source].gen = 2
    /\ audioNodes[edges[i].target].gen = 1
    /\ WiredToCurrent(edges[i])

\* C4: after an edge is deleted, the connection or subscription it produced
\* between its two registered units is gone: no patch or scale stage carries
\* the source into the target, and the target is not in the source's
\* trigger/note fan-out list.
C4_EdgeDeletionTeardown ==
  [][\A e \in EdgeUniverse :
       Includes(edges, e) /\ ~Includes(edges', e) /\ BothRegistered(e)
         => LiveCount(e, audioNodes[e.source], audioNodes[e.target])' = 0]_vars

\* C5: a further registration or connect call for the same units, with the
\* same edge store and the same range tables, on edges that are already
\* resolved, leaves the live connections as they were (no second patch, no
\* second scale stage).
AlreadyResolved ==
  /\ pendingConnect \subseteq Elements(edges)
  /\ \A i \in 1..Len(edges) : BothRegistered(edges[i]) => WiredToCurrent(edges[i])

C5_ReresolutionIdempotent ==
  [][audioNodes' = audioNodes /\ edges' = edges /\ nodeParams' = nodeParams /\ AlreadyResolved
       => /\ patches' = patches
          /\ scalers' = scalers
          /\ connectedTriggers' = connectedTriggers
          /\ connectedNotes' = connectedNotes]_vars

\* the range table the registry holds for a node id (none: the empty table)
RangeTable(id) == IF id \in DOMAIN nodeParams THEN nodeParams[id] ELSE {}

ScalersInto(b, u) ==
  SumCopies(b, {r \in DOMAIN b : r.dst = u})

\* C7: every registration of id X leaves exactly the supplied range table
\* under X (the empty table when none is supplied), and a registration
\* without ranges adds no scale stage in front of X's unit.
C7_RangesReplacedWholesale ==
  [][\A id \in NodeIds, fresh \in BOOLEAN :
       \A params \in ParamChoices(id) :
         Register(id, fresh, params)
           => /\ RangeTable(id)' = params.table
              /\ params.table = {} => ScalersInto(scalers', audioNodes'[id])
                                         <= ScalersInto(scalers, audioNodes'[id])]_vars

\* C8: deleteAudioNode(X) disconnects and disposes X's unit and leaves the
\* registry without any entry for X: no unit and no range table.
C8_DeleteRemovesEveryEntry ==
  [][\A id \in NodeIds :
       OnNodesDelete(id)
         => /\ getAudioNode(World, id)' = NoUnit
            /\ audioNodes[id] \in disposed'
            /\ \A p \in patches' : p.src # audioNodes[id]
            /\ id \notin DOMAIN nodeParams']_vars

\* C9: a resolved Note edge whose source unit has connectNote has its target
\* in the source's note fan-out list and no direct patch; a source without
\* connectNote is patched directly, without a scale stage.
C9_NoteEdgeSubscribes ==
  \A i \in 1..Len(edges) :
    LET e == edges[i]
        s == getAudioNode(World, e.source)
        t == getAudioNode(World, e.target)
    IN getSignalType(e.targetHandle) = "note" /\ BothRegistered(e) /\ e \notin pendingConnect
         => IF HasConnectNote(s)
            THEN Count(connectedNotes[s], t) = 1 /\ DirectPatches(e, s, t) = 0
            ELSE Count(connectedNotes[s], t) = 0 /\ ScalerStages(e, s, t) = 0

\* C10: with seq, env and vco registered and the gate edge seq -> env.trigger
\* and the note edge seq -> vco.note resolved, a sequencer step with note C4
\* calls setNote on the vco (frequency 261.63), triggers the envelope exactly
\* once, and neither edge has a scale stage.
ScenarioBResolved ==
  /\ {"seq", "env", "vco"} \subseteq DOMAIN audioNodes
  /\ Includes(edges, NewEdge(GateConnection))
  /\ Includes(edges, NewEdge(NoteConnection))
  /\ pendingConnect = {}
  /\ pendingGate = {}

C10_ScenarioB ==
  ScenarioBResolved /\ fired.event = "step" /\ fired.note = "C4"
    => /\ fired.setNote = <<audioNodes["vco"]>>
       /\ vcoState[audioNodes["vco"]].baseFrequency = 26163
       /\ fired.trigger = <<audioNodes["env"]>>
       /\ scalers = EmptyBag

\* ---------------------------------------------------------------- the resolver on its own
\* an edge as a template or a saved flow supplies it: handles and data are
\* whatever the file holds
StoredEdge(name, source, target, sourceHandle, targetHandle, sourceProperty, targetProperty) ==
  [id |-> <<"t", name, target>>,
   source |-> source,
   target |-> target,
   sourceHandle |-> sourceHandle,
   targetHandle |-> targetHandle,
   data |-> [targetProperty |-> targetProperty, sourceProperty |-> sourceProperty]]

\* a Note edge leaving the source's 'output'
NoteFromOutput ==
  StoredEdge("noteOut", "lfo", "vco", <<"lfo", "output", "note">>,
             <<"vco", "control2", "note", "note">>, "output", "note")

\* CV edges leaving the source's 'output'
CVFromOutput ==
  StoredEdge("cvOut", "lfo", "vco", <<"lfo", "output", "cv">>,
             <<"vco", "control1", "frequency", "cv">>, "output", "frequency")

CVFromOutputIntoFilter ==
  StoredEdge("cvOut", "lfo", "filter", <<"lfo", "output", "cv">>,
             <<"filter", "controlCustom", "frequency", "cv">>, "output", "frequency")

\* the CV edge onConnect builds between the LFO output and the filter's frequency handle
CVIntoFilter ==
  NewEdge([source |-> "lfo", target |-> "filter",
           sourceHandle |-> <<"lfo", "output", "cv">>,
           targetHandle |-> <<"filter", "controlCustom", "frequency", "cv">>])

\* a Gate edge whose source is a Tone.LFO (no connectTrigger)
GateFromLfo ==
  StoredEdge("gate", "lfo", "env", <<"lfo", "output", "gate">>,
             <<"env", "control1", "trigger", "gate">>, "gate", "trigger")

\* edges without a type tag: no handles at all (first preset template), and
\* handles that end in a property name (the 'Sequencer Test' template)
EdgeWithoutHandles ==
  StoredEdge("plain", "vco", "env", <<>>, <<>>, Undefined, Undefined)

EdgeIntoTrigger ==
  StoredEdge("trig", "seq", "env", <<"seq", "gate">>,
             <<"env", "control1", "trigger">>, Undefined, "trigger")

EdgeIntoFrequency ==
  StoredEdge("freq", "lfo", "vco", <<"lfo", "output">>,
             <<"vco", "control1", "frequency">>, Undefined, "frequency")

EdgeIntoInput ==
  StoredEdge("in", "vco", "env", <<"vco", "output">>, <<"env", "input">>, Undefined, Undefined)

\* an Audio edge into a Tone.LFO, which has no input: the native connect throws
AudioIntoLfo ==
  StoredEdge("audio", "vco", "lfo", <<"vco", "output", "audio">>,
             <<"lfo", "input", "audio">>, "audio", "audio")

\* Audio edges at the output node 'toDestination': into it, and from it into
\* a Tone.LFO (throws)
AudioIntoOutput ==
  StoredEdge("audio", "vco", "toDestination", <<"vco", "output", "audio">>,
             <<"toDestination", "input", "audio">>, "audio", "audio")

OutputIntoLfo ==
  StoredEdge("audio", "toDestination", "lfo", <<"toDestination", "output", "audio">>,
             <<"lfo", "input", "audio">>, "audio", "audio")

UntaggedEdges == {EdgeWithoutHandles, EdgeIntoTrigger, EdgeIntoFrequency, EdgeIntoInput}

ResolverEdges ==
  EdgeUniverse \cup UntaggedEdges
    \cup {NoteFromOutput, CVFromOutput, CVFromOutputIntoFilter, CVIntoFilter, GateFromLfo, AudioIntoLfo}
    \cup {AudioIntoOutput, OutputIntoLfo}

\* the edge stores the resolver is run on: one edge, or a throwing edge
\* together with an edge that shares a node with it
ResolverStores ==
  {<<e>> : e \in ResolverEdges}
    \cup {<<AudioIntoLfo, NewEdge(c)>> : c \in {AudioConnection, CVConnection}}
    \cup {<<NewEdge(c), AudioIntoLfo>> : c \in {AudioConnection, CVConnection}}

Endpoints(es) == {es[i].source : i \in 1..Len(es)} \cup {es[i].target : i \in 1..Len(es)}

InitResolver ==
  /\ canvas = "resolver"
  /\ audioNodes = InitWorld.audioNodes
  /\ nodeParams = InitWorld.nodeParams
  /\ connectedTriggers = InitWorld.connectedTriggers
  /\ connectedNotes = InitWorld.connectedNotes
  /\ patches = InitWorld.patches
  /\ scalers = InitWorld.scalers
  /\ vcoState = InitWorld.vcoState
  /\ toDest = InitWorld.toDest
  /\ disposed = InitWorld.disposed
  /\ disposeCalls = InitWorld.disposeCalls
  /\ created = [id \in NodeIds |-> 0]
  /\ edges \in ResolverStores
  /\ pendingConnect = {}
  /\ pendingGate = {}
  /\ fired = NoFire
  /\ keyboard = NewKeyboard
  /\ grid = EmptyGrid
  /\ subscribeCalls = [p \in {} |-> 0]
  /\ console = <<>>
  /\ template = NoTemplate

\* a node component mounts and registers its first unit, with or without ranges
RegisterUnit(id, params) ==
  /\ created[id] = 0
  /\ Register(id, TRUE, params)

\* audioNodeManager.connect(edge) on an edge of the store
Resolve(i) ==
  /\ i \in 1..Len(edges)
  /\ LET w == connect(World, edges[i])
     IN /\ BagCardinality(w.scalers) <= MaxScalers
        /\ SetWorld(w)
        /\ console' = w.log
  /\ fired' = NoFire
  /\ UNCHANGED <<canvas, created, edges, pendingConnect, pendingGate, keyboard, subscribeCalls,
                 template, grid>>

NextResolver ==
  \/ \E id \in Endpoints(edges) : \E params \in ParamChoices(id) : RegisterUnit(id, params)
  \/ \E i \in 1..2 : Resolve(i)

SpecResolver == InitResolver /\ [][NextResolver]_vars

Reported(e, outcome) == console = <<[edge |-> e.id, outcome |-> outcome]>>

IsNoteFromOutput(e) ==
  getSignalType(e.targetHandle) = "note" /\ e.data.sourceProperty = "output"

IsCV(e) == getSignalType(e.targetHandle) = "cv"

\* what one resolution of CV edge e does when the target's range table is table
CVResolution(e, table) ==
  LET s == FirstUnit(e.source)
      t == FirstUnit(e.target)
      property == e.data.targetProperty
      direct == [src |-> s, dst |-> t, port |-> property]
  IN IF HasParamDef(table, property)
     THEN /\ scalers' = scalers (+) SetToBag({[src |-> s, dst |-> t, port |-> property,
                                                min |-> ParamDef(table, property).min,
                                                max |-> ParamDef(table, property).max]})
          /\ patches' = patches
     ELSE /\ scalers' = scalers
          /\ direct \in patches'
          /\ patches' \ patches \subseteq {direct}

ScaleOutput(stage, num, den) == stage.min + (num * (stage.max - stage.min)) \div den

\* C13: every scale stage connect has built in front of a parameter with
\* declared range [min, max], min < max, maps input 0 to min and input 1 to max.
C13_ScaleEndpoints ==
  \A r \in DOMAIN scalers :
    r.dst.node \in DOMAIN nodeParams /\ HasParamDef(nodeParams[r.dst.node], r.port)
      /\ LET def == ParamDef(nodeParams[r.dst.node], r.port)
         IN def.min < def.max
              => ScaleOutput(r, 0, 1) = def.min /\ ScaleOutput(r, 1, 1) = def.max

C13_Witness ==
  /\ edges = <<CVFromOutput>>
  /\ \E r \in DOMAIN scalers :
       /\ r.src = FirstUnit("lfo") /\ r.dst = FirstUnit("vco") /\ r.port = "frequency"
       /\ ScaleOutput(r, 0, 1) = 200
       /\ ScaleOutput(r, 1, 1) = 20000

\* Tone.LFO({min: 0, max: 1, amplitude: 1}): the oscillator value v in -1..1
\* (v10 tenths) leaves the LFO as (v + 1) / 2
LfoOutput(v10) == [num |-> v10 + 10, den |-> 20]

OscillatorValues == -10..10

RECURSIVE SumStages(_, _, _, _)
SumStages(b, rs, num, den) ==
  IF rs = {} THEN 0
  ELSE LET r == CHOOSE x \in rs : TRUE
       IN b[r] * ScaleOutput(r, num, den) + SumStages(b, rs \ {r}, num, den)

\* what arrives at port `port` of unit t when every source feeding it emits
\* num / den: connections into one parameter are summed (a direct patch
\* passes the value on, in tenths)
ParamInput(t, port, num, den) ==
  SumStages(scalers, {r \in DOMAIN scalers : r.dst = t /\ r.port = port /\ r.src # NoUnit},
            num, den)
    + Cardinality({p \in patches : p.dst = t /\ p.port = port}) * ((num * 10) \div den)

\* C14: with lfo and filter registered, the filter with range frequency
\* [200, 5000], and the CV edge lfo -> filter.frequency resolved, an lfo
\* value v in -1..1 arrives at the filter's frequency parameter as
\* 200 + (v + 1) / 2 * 4800: -1 gives 200 and 1 gives 5000.
C14_ScenarioC ==
  /\ edges = <<CVIntoFilter>>
  /\ BothRegistered(CVIntoFilter)
  /\ RangeTable("filter") = FilterRanges
  => \A v10 \in OscillatorValues :
       ParamInput(FirstUnit("filter"), "frequency", LfoOutput(v10).num, LfoOutput(v10).den)
         = 2000 + (v10 + 10) * 2400

IsAudio(e) == getSignalType(e.targetHandle) = "audio"

\* C15: an Audio edge with both endpoints registered, into a unit that has
\* an input, is one direct connection from the source's output to the target
\* unit, with no scale stage and no event subscription: the value 0.5 sent
\* from the source arrives unchanged at the target.
C15_AudioDirect ==
  \A i \in 1..Len(edges) :
    LET e == edges[i]
        s == FirstUnit(e.source)
        t == FirstUnit(e.target)
    IN IsAudio(e) /\ BothRegistered(e) /\ AcceptsInput(t)
         => /\ [src |-> s, dst |-> t, port |-> "node"] \in patches
            /\ ScalerStages(e, s, t) = 0
            /\ Subscriptions(e, s, t) = 0
            /\ connectedTriggers[s] = <<>> /\ connectedNotes[s] = <<>>
            /\ ParamInput(t, "node", 1, 2) = 5

C15_Witness ==
  /\ edges = <<NewEdge(AudioConnection)>>
  /\ BothRegistered(NewEdge(AudioConnection))
  /\ Reported(NewEdge(AudioConnection), "Wired")
  /\ patches = {[src |-> FirstUnit("vco"), dst |-> FirstUnit("env"), port |-> "node"]}
  /\ ParamInput(FirstUnit("env"), "node", 1, 2) = 5

IsGate(e) == getSignalType(e.targetHandle) = "gate"

\* the units that are plain Tone.LFO objects (no connectTrigger method)
ToneLFOs == {u \in Unit : u.node = "lfo"}

managerVars == <<audioNodes, nodeParams, connectedTriggers, connectedNotes, patches,
                 scalers, vcoState, toDest, disposed, disposeCalls>>

\* C16: resolving a Gate edge whose source unit has no connectTrigger
\* changes nothing: no subscription, no connection, the registry as before,
\* and connect reports a rejection, not an error. Checked for the
\* resolution by connect and for the one a registration triggers.
C16_GateRejectedLocally ==
  [][/\ \A i \in 1..Len(edges) :
          /\ Resolve(i) /\ IsGate(edges[i]) /\ BothRegistered(edges[i])
          /\ audioNodes[edges[i].source] \in ToneLFOs
          => /\ UNCHANGED managerVars
             /\ Reported(edges[i], "Rejected")'
     /\ \A id \in NodeIds :
          \A params \in ParamChoices(id) :
            /\ RegisterUnit(id, params)
            /\ \A i \in 1..Len(edges) :
                 IsGate(edges[i]) /\ FirstUnit(edges[i].source) \in ToneLFOs
            => /\ UNCHANGED <<connectedTriggers, connectedNotes, patches, scalers, vcoState>>
               /\ audioNodes' = MapSet(audioNodes, id, FirstUnit(id))]_vars

C16_Witness ==
  /\ edges = <<GateFromLfo>>
  /\ BothRegistered(GateFromLfo)
  /\ Reported(GateFromLfo, "Rejected")
  /\ \A u \in Unit : connectedTriggers[u] = <<>> /\ connectedNotes[u] = <<>>
  /\ patches = {}
  /\ scalers = EmptyBag

\* ---------------------------------------------------------------- signal type tags
\* enum SignalType
SignalType == {"audio", "cv", "gate", "note"}

NoType == "null"

\* getSignalTypeFromHandleId(handleId)
getSignalTypeFromHandleId(handleId) ==
  IF handleId = <<>> THEN NoType
  ELSE IF handleId[Len(handleId)] \in SignalType THEN handleId[Len(handleId)]
  ELSE NoType

\* areSignalTypesCompatible(sourceType, targetType)
areSignalTypesCompatible(sourceType, targetType) ==
  IF sourceType = NoType \/ targetType = NoType THEN FALSE
  ELSE sourceType = targetType

\* C17: an edge whose target handle carries no valid type tag (no handle, or
\* a last segment that is none of audio, cv, gate, note) never gets a
\* connection or a subscription, whatever its handle names and data suggest;
\* connect reports it as rejected.
C17_UntaggedEdgeUnrouted ==
  \A i \in 1..Len(edges) :
    LET e == edges[i]
    IN getSignalTypeFromHandleId(e.targetHandle) = NoType
         => /\ LiveCount(e, FirstUnit(e.source), FirstUnit(e.target)) = 0
            /\ \A u \in Unit : connectedTriggers[u] = <<>> /\ connectedNotes[u] = <<>>
            /\ patches = {}
            /\ scalers = EmptyBag
            /\ \A u \in Unit : vcoState[u] = NewVco
            /\ console # <<>> => Reported(e, "Rejected") \/ Reported(e, "Deferred")

C17_Witness ==
  /\ edges = <<EdgeIntoTrigger>>
  /\ BothRegistered(EdgeIntoTrigger)
  /\ Reported(EdgeIntoTrigger, "Rejected")
  /\ connectedTriggers[FirstUnit("seq")] = <<>>

\* C18: when the wiring of one edge of a node throws (an Audio edge into a
\* Tone.LFO), the registration still completes and every other edge of the
\* store whose endpoints are registered is wired; the throwing edge alone
\* stays unwired.
C18_SiblingEdgesStillWired ==
  \A i, j \in 1..Len(edges) :
    edges[i] = AudioIntoLfo /\ j # i
      => /\ LiveCount(AudioIntoLfo, FirstUnit("vco"), FirstUnit("lfo")) = 0
         /\ BothRegistered(edges[j])
              => LiveCount(edges[j], FirstUnit(edges[j].source), FirstUnit(edges[j].target)) >= 1

C18_Witness ==
  /\ edges = <<AudioIntoLfo, NewEdge(CVConnection)>>
  /\ {"vco", "lfo"} \subseteq DOMAIN audioNodes
  /\ Reported(AudioIntoLfo, "Error")
  /\ LiveCount(NewEdge(CVConnection), FirstUnit("lfo"), FirstUnit("vco")) = 1
  /\ LiveCount(AudioIntoLfo, FirstUnit("vco"), FirstUnit("lfo")) = 0

Copies(b, r) == IF r \in DOMAIN b THEN b[r] ELSE 0

\* the step changes no connection and no subscription between units of
\* nodes other than id
OnlyTouches(id) ==
  /\ \A p \in (patches' \ patches) \cup (patches \ patches') :
       id \in {p.src.node, p.dst.node}
  /\ \A r \in DOMAIN scalers' \cup DOMAIN scalers :
       Copies(scalers', r) # Copies(scalers, r) => id \in {r.src.node, r.dst.node}
  /\ \A u, t \in Unit :
       u.node # id /\ t.node # id
         => /\ Count(connectedTriggers'[u], t) = Count(connectedTriggers[u], t)
            /\ Count(connectedNotes'[u], t) = Count(connectedNotes[u], t)

\* C19: a registration of X resolves the edges with source X or target X
\* (each one whose other endpoint is registered is wired afterwards) and
\* leaves the connections and subscriptions of every other edge as they were.
C19_RegistrationFrame ==
  [][\A id \in NodeIds :
       RegisterOnce(id)
         => /\ OnlyTouches(id)
            /\ \A i \in 1..Len(edges) :
                 /\ id \in {edges[i].source, edges[i].target}
                 /\ BothRegistered(edges[i])'
                 => LiveCount(edges[i], FirstUnit(edges[i].source),
                              FirstUnit(edges[i].target))' = 1
            /\ \A i \in 1..Len(edges) :
                 id \notin {edges[i].source, edges[i].target}
                   => LiveCount(edges[i], FirstUnit(edges[i].source),
                                FirstUnit(edges[i].target))'
                        = LiveCount(edges[i], FirstUnit(edges[i].source),
                                    FirstUnit(edges[i].target))]_vars

C19_Witness ==
  /\ canvas = "full"
  /\ Includes(edges, NewEdge(CVConnection))
  /\ Includes(edges, NewEdge(GateConnection))
  /\ AllRegistered
  /\ BagCardinality(scalers) = 1
  /\ Count(connectedTriggers[FirstUnit("seq")], FirstUnit("env")) = 1

\* ---------------------------------------------------------------- drawing edges
\* the handles the node components render, as '-' separated parts; a Handle
\* without an id reaches the validator as null (<<>>)
SourceHandles ==
  {[node |-> "seq", handle |-> <<"seq", "note", "note">>],
   [node |-> "seq", handle |-> <<"seq", "gate", "gate">>],
   [node |-> "kbd", handle |-> <<"kbd", "gate", "gate">>],
   [node |-> "kbd", handle |-> <<"kbd", "control1", "note", "note">>],
   [node |-> "lfo", handle |-> <<"lfo", "output", "audio">>],
   [node |-> "lfo", handle |-> <<"lfo", "output", "cv">>],
   [node |-> "vco", handle |-> <<"vco", "output", "audio">>],
   [node |-> "vco", handle |-> <<>>],
   [node |-> "filter", handle |-> <<"output">>]}

TargetHandles ==
  {[node |-> "env", handle |-> <<"env", "control1", "trigger", "gate">>],
   [node |-> "env", handle |-> <<"env", "input", "audio">>],
   [node |-> "vco", handle |-> <<"vco", "control1", "frequency", "cv">>],
   [node |-> "vco", handle |-> <<"vco", "control2", "note", "note">>],
   [node |-> "filter", handle |-> <<"filter", "controlCustom", "frequency", "cv">>],
   [node |-> "filter", handle |-> <<>>],
   [node |-> "out", handle |-> <<"out", "input">>]}

\* the Connection objects a drag from a source handle to a target handle makes
DrawnConnections ==
  {[source |-> s.node, target |-> t.node,
    sourceHandle |-> s.handle, targetHandle |-> t.handle] :
     s \in SourceHandles, t \in TargetHandles}

\* getSignalType of isValidConnection: the last segment, or null
ValidatorSignalType(handleId) ==
  IF handleId = <<>> THEN NoType
  ELSE IF handleId[Len(handleId)] = "" THEN NoType
  ELSE handleId[Len(handleId)]

isValidConnectionAnyTags(connection) ==
  LET sourceType == ValidatorSignalType(connection.sourceHandle)
      targetType == ValidatorSignalType(connection.targetHandle)
  IN sourceType # NoType /\ targetType # NoType

\* NodeEditor.isValidConnection
isValidConnection(connection) ==
  LET sourceType == ValidatorSignalType(connection.sourceHandle)
      targetType == ValidatorSignalType(connection.targetHandle)
  IN sourceType # NoType /\ targetType # NoType /\ sourceType = targetType

\* the order the node components of the drawing canvas mount in
DrawOrder == <<"seq", "env", "vco", "lfo", "kbd", "filter">>

MountedWorld == RegisterInOrder(InitWorld, DrawOrder, <<>>)

InitDraw ==
  /\ canvas = "draw"
  /\ audioNodes = MountedWorld.audioNodes
  /\ nodeParams = MountedWorld.nodeParams
  /\ connectedTriggers = MountedWorld.connectedTriggers
  /\ connectedNotes = MountedWorld.connectedNotes
  /\ patches = MountedWorld.patches
  /\ scalers = MountedWorld.scalers
  /\ vcoState = MountedWorld.vcoState
  /\ toDest = MountedWorld.toDest
  /\ disposed = MountedWorld.disposed
  /\ disposeCalls = MountedWorld.disposeCalls
  /\ created = [id \in NodeIds |-> 1]
  /\ edges = <<>>
  /\ pendingConnect = {}
  /\ pendingGate = {}
  /\ fired = NoFire
  /\ keyboard = NewKeyboard
  /\ grid = EmptyGrid
  /\ subscribeCalls = [p \in {} |-> 0]
  /\ console = <<>>
  /\ template = NoTemplate

\* the user drags from a source handle to a target handle: React Flow asks
\* isValidConnection and calls onConnect only when it returns true; a
\* refused attempt leaves the warning on the console
Draw(c) ==
  IF isValidConnection(c)
  THEN /\ Len(edges) < MaxStore
       /\ OnConnect(c)
  ELSE /\ console' = <<[edge |-> <<"e", c.source, c.target>>, outcome |-> "Invalid"]>>
       /\ fired' = NoFire
       /\ UNCHANGED <<canvas, created, edges, pendingConnect, pendingGate, managerVars,
                      keyboard, subscribeCalls, template, grid>>

NextDraw ==
  \/ \E c \in DrawnConnections : Draw(c)
  \/ \E e \in pendingConnect : TimerConnect(e)
  \/ \E e \in pendingGate : TimerGate(e)

SpecDraw == InitDraw /\ [][NextDraw]_vars

\* C20: every edge the validator admitted has a source tag and a target tag,
\* each one of audio, cv, gate, note, and the two are equal; the engine's
\* areSignalTypesCompatible over getSignalTypeFromHandleId of the two handles
\* gives the same verdict.
C20_AdmittedEdgesTyped ==
  \A i \in 1..Len(edges) :
    LET sourceHandle == edges[i].sourceHandle
        targetHandle == edges[i].targetHandle
    IN /\ sourceHandle # <<>> /\ targetHandle # <<>>
       /\ sourceHandle[Len(sourceHandle)] \in SignalType
       /\ targetHandle[Len(targetHandle)] \in SignalType
       /\ sourceHandle[Len(sourceHandle)] = targetHandle[Len(targetHandle)]
       /\ areSignalTypesCompatible(getSignalTypeFromHandleId(sourceHandle),
                                   getSignalTypeFromHandleId(targetHandle))

C20_Witness ==
  /\ canvas = "draw"
  /\ Len(edges) = MaxStore
  /\ \E i, j \in 1..Len(edges) :
       getSignalTypeFromHandleId(edges[i].targetHandle)
         # getSignalTypeFromHandleId(edges[j].targetHandle)
  /\ console # <<>>
  /\ console[1].outcome = "Invalid"

\* ---------------------------------------------------------------- templates
\* the edges of the preset templates, as TemplateSelector holds them
SeqGateEnvTrig == EdgeIntoTrigger

SeqNoteVcoFreq ==
  StoredEdge("e-seq-note-vco-freq", "seq", "vco", <<"seq", "note">>,
             <<"vco", "control1", "frequency">>, Undefined, "frequency")

VcoEnv == EdgeIntoInput

EnvOut ==
  StoredEdge("e-env-out", "env", "out", <<"env", "output">>, <<"out", "input">>,
             Undefined, Undefined)

EnvToDestination ==
  StoredEdge("e2-3", "env", "toDestination", <<>>, <<>>, Undefined, Undefined)

VcoToDestination ==
  StoredEdge("e1-2", "vco", "toDestination", <<>>, <<>>, Undefined, Undefined)

VcoFilter ==
  StoredEdge("e1-2", "vco", "filter", <<>>, <<>>, Undefined, Undefined)

FilterToDestination ==
  StoredEdge("e2-3", "filter", "toDestination", <<>>, <<>>, Undefined, Undefined)

\* presetTemplates
Templates == {"VCO->Envelope->Out", "LFO->VCO->OUT", "VCO->Filter->Out", "Sequencer Test"}

TemplateNodes(name) ==
  CASE name = "VCO->Envelope->Out" -> {"vco", "env", "toDestination"}
    [] name = "LFO->VCO->OUT" -> {"vco", "lfo", "toDestination"}
    [] name = "VCO->Filter->Out" -> {"vco", "filter", "toDestination"}
    [] name = "Sequencer Test" -> {"seq", "vco", "env", "out"}

TemplateEdges(name) ==
  CASE name = "VCO->Envelope->Out" -> <<EdgeWithoutHandles, EnvToDestination>>
    [] name = "LFO->VCO->OUT" -> <<VcoToDestination>>
    [] name = "VCO->Filter->Out" -> <<VcoFilter, FilterToDestination>>
    [] name = "Sequencer Test" -> <<SeqGateEnvTrig, SeqNoteVcoFreq, VcoEnv, EnvOut>>

\* NodeEditor.processConnection(edge); the wiring calls are not inside a
\* try block, so what sourceNode.connect throws leaves the function
processConnection(w, e) ==
  IF e.source \notin DOMAIN w.audioNodes \/ e.target \notin DOMAIN w.audioNodes
  THEN Log(w, e, "Deferred")
  ELSE LET sourceNode == w.audioNodes[e.source]
           targetNode == w.audioNodes[e.target]
           targetType == ValidatorSignalType(e.targetHandle)
           property == e.data.targetProperty
       IN IF targetType = "gate"
          THEN IF HasConnectTrigger(sourceNode)
               THEN Log(callConnectTrigger(w, sourceNode, targetNode), e, "Wired")
               ELSE Log(w, e, "Rejected")
          ELSE IF targetType \in {"note", "cv"}
          THEN IF property = Undefined THEN Log(w, e, "Rejected")
               ELSE IF PropOf(targetNode, property) = "connectable"
               THEN Log(ConnectPatch(w, sourceNode, targetNode, property), e, "Wired")
               ELSE Log(w, e, "Rejected")
          ELSE IF targetType = "audio"
          THEN ConnectNode(w, e, sourceNode, targetNode, "node")
          ELSE Log(w, e, "Rejected")

\* edgesToProcess.forEach(edge => processConnection(edge)): an exception
\* ends the forEach and the timer callback
RECURSIVE ProcessAll(_, _)
ProcessAll(w, es) ==
  IF es = <<>> THEN w
  ELSE LET w1 == processConnection(w, Head(es))
       IN IF w1.log[Len(w1.log)].outcome = "Error" THEN w1
          ELSE ProcessAll(w1, Tail(es))

InitTemplate ==
  /\ canvas \in Templates
  /\ InitEditor

\* NodeEditor.handleApplyTemplate(template): the refs are set, setNodes and
\* setEdges replace the canvas; node components already mounted under the
\* same id stay mounted
ApplyTemplate ==
  /\ template.applications < MaxApply
  /\ template' = [template EXCEPT !.applying = TRUE,
                                  !.edgesToProcess = TemplateEdges(canvas),
                                  !.processed = <<>>,
                                  !.applications = @ + 1]
  /\ edges' = TemplateEdges(canvas)
  /\ fired' = NoFire
  /\ UNCHANGED <<unitVars, managerVars, canvas, created, pendingConnect, pendingGate>>

\* a node component of the applied template registers a unit it has just
\* constructed: when it mounts, and again when its construction effect re-runs
Mount(id) ==
  /\ template.applications > 0
  /\ Register(id, TRUE, ComponentParams(id))

\* the 200 ms timer set by registerAudioNode runs. Every node component of
\* the preset templates registers in its mount effect or the render that
\* follows it, so the registrations of the commit that set the timer have
\* run by then
TemplateTimer ==
  /\ template.timers > 0
  /\ \A id \in TemplateNodes(canvas) : id \in DOMAIN audioNodes
  /\ LET edgesToProcess == template.edgesToProcess
         w == ProcessAll(World, edgesToProcess)
         thrown == w.log # <<>> /\ w.log[Len(w.log)].outcome = "Error"
     IN IF Len(edgesToProcess) > 0
        THEN /\ SetWorld(w)
             /\ console' = w.log
             /\ template' =
                  IF thrown
                  THEN [template EXCEPT !.timers = @ - 1,
                                        !.processed = @ \o [i \in 1..Len(w.log) |-> w.log[i].edge]]
                  ELSE [template EXCEPT !.timers = @ - 1,
                                        !.processed = @ \o [i \in 1..Len(w.log) |-> w.log[i].edge],
                                        !.edgesToProcess = <<>>,
                                        !.applying = FALSE]
        ELSE /\ template' = [template EXCEPT !.timers = @ - 1]
             /\ UNCHANGED <<managerVars, console>>
  /\ fired' = NoFire
  /\ UNCHANGED <<canvas, created, edges, pendingConnect, pendingGate, keyboard, subscribeCalls,
                 grid>>

NextTemplate ==
  \/ ApplyTemplate
  \/ \E id \in TemplateNodes(canvas) : Mount(id)
  \/ TemplateTimer
  \/ \E note \in Notes : FireStep(note)

SpecTemplate == InitTemplate /\ [][NextTemplate]_vars

\* the processConnection calls the deferred passes made on an edge since the
\* template was applied
TimesProcessed(e) ==
  Cardinality({i \in 1..Len(template.processed) : template.processed[i] = e.id})

\* the template marks the edge as the one that carries the gate
\* (data.targetProperty 'trigger', drawn from the sequencer's gate output)
IsTemplateGateEdge(e) == e.data.targetProperty = "trigger"

\* the deferred pass: a timer step that finds edges to process
TemplatePass == TemplateTimer /\ Len(template.edgesToProcess) > 0

\* C21: the deferred pass of a template application finds every node of a
\* template edge registered, processes every template edge, once per
\* application, and leaves the target of every gate edge of the template
\* subscribed to the trigger fan-out of the edge's source.
C21_TemplatePass ==
  [][TemplatePass
       => /\ \A i \in 1..Len(edges) : BothRegistered(edges[i])
          /\ \A i \in 1..Len(edges) : TimesProcessed(edges[i])' = 1
          /\ \A i \in 1..Len(edges) :
               IsTemplateGateEdge(edges[i])
                 => Includes(connectedTriggers'[audioNodes[edges[i].source]],
                             audioNodes[edges[i].target])]_vars

\* the connections registerAudioNode would leave had it called disconnect()
\* on the unit registered under the id before storing the new one
AfterDisconnectFirst(id, fresh, params) ==
  LET u == IF fresh THEN [node |-> id, gen |-> created[id] + 1] ELSE audioNodes[id]
      w0 == IF fresh THEN Construct(World, id, u) ELSE World
  IN registerAudioNode(Disconnect(w0, audioNodes[id]), id, u, edges, params)

\* C22: a registration under an id that already has a unit leaves the
\* connections that a disconnect() of the previous unit, followed by storing
\* the new unit and re-wiring its edges, leaves.
C22_PreviousUnitDisconnected ==
  [][\A id \in NodeIds, fresh \in BOOLEAN :
       \A params \in ParamChoices(id) :
         Register(id, fresh, params) /\ id \in DOMAIN audioNodes
           => LET w == AfterDisconnectFirst(id, fresh, params)
              IN /\ patches' = w.patches
                 /\ scalers' = w.scalers
                 /\ toDest' = w.toDest]_vars

\* C23: a registration connects the unit to the final output exactly when
\* the node id is 'toDestination', whatever edges the store holds and whether
\* their resolution was made, skipped or failed.
C23_DestinationStep ==
  [][\A id \in NodeIds :
       \A params \in ParamChoices(id) :
         RegisterUnit(id, params)
           => IF id = "toDestination"
              THEN toDest' = toDest \cup {audioNodes'[id]}
              ELSE toDest' = toDest]_vars

C23_Witness ==
  /\ edges = <<OutputIntoLfo>>
  /\ BothRegistered(OutputIntoLfo)
  /\ LiveCount(OutputIntoLfo, FirstUnit("toDestination"), FirstUnit("lfo")) = 0
  /\ toDest = {FirstUnit("toDestination")}

\* C24: when an edge is deleted, the connections and subscriptions of the
\* other edges that leave the same source node are what they were before.
C24_OtherEdgesKept ==
  [][\A e, other \in EdgeUniverse :
       /\ OnEdgesDelete(e)
       /\ other # e /\ Includes(edges, other) /\ other.source = e.source
       /\ BothRegistered(other)
       => LiveCount(other, audioNodes[other.source], audioNodes[other.target])'
            = LiveCount(other, audioNodes[other.source], audioNodes[other.target])]_vars

\* what a resolution of an edge leaves: the connections, the subscriptions
\* and the outcome it reported
Wiring(w) ==
  [patches |-> w.patches, scalers |-> w.scalers,
   triggers |-> w.connectedTriggers, notes |-> w.connectedNotes,
   outcome |-> w.log[Len(w.log)].outcome]

\* C25: for an edge whose two endpoints are registered, processConnection
\* and AudioNodeManager.connect choose the same strategy (subscription,
\* direct connection, scaled connection, rejection) and the same destination.
C25_SameWiring ==
  \A i \in 1..Len(edges) :
    BothRegistered(edges[i])
      => Wiring(processConnection(World, edges[i])) = Wiring(connect(World, edges[i]))

\* C26: every entry of the trigger and note fan-out list of a registered
\* source unit is the unit registered under its node id at present: a unit
\* that was replaced by a re-registration or removed by deleteAudioNode is
\* in no such list.
C26_FanoutHoldsCurrentUnits ==
  \A id \in DOMAIN audioNodes :
    \A t \in Elements(connectedTriggers[audioNodes[id]])
               \cup Elements(connectedNotes[audioNodes[id]]) :
      getAudioNode(World, t.node) = t

\* the registered targets of the gate edges of the store that leave node id
GateTargets(id) ==
  {audioNodes[edges[i].target] :
     i \in {j \in 1..Len(edges) : /\ edges[j].source = id
                                  /\ getSignalType(edges[j].targetHandle) = "gate"
                                  /\ edges[j].target \in DOMAIN audioNodes}}

\* C27: when a gate source that is already registered registers a unit it
\* has just constructed, the trigger fan-out list of the new unit holds,
\* after that same call, the registered target of every gate edge of the
\* store that leaves the node, each once, and nothing else.
C27_ResubscribedOnReregistration ==
  [][\A id \in NodeIds :
       \A params \in ParamChoices(id) :
         /\ Register(id, TRUE, params)
         /\ id \in DOMAIN audioNodes
         /\ HasConnectTrigger(audioNodes[id])
         => /\ audioNodes'[id] # audioNodes[id]
            /\ Elements(connectedTriggers'[audioNodes'[id]]) = GateTargets(id)'
            /\ Len(connectedTriggers'[audioNodes'[id]]) = Cardinality(GateTargets(id)')]_vars

C27_Witness ==
  /\ canvas = "gate"
  /\ Includes(edges, NewEdge(GateConnection))
  /\ "env" \in DOMAIN audioNodes
  /\ "seq" \in DOMAIN audioNodes
  /\ audioNodes["seq"].gen = 2
  /\ connectedTriggers[audioNodes["seq"]] = <<audioNodes["env"]>>
  /\ pendingConnect = {} /\ pendingGate = {}

\* ---------------------------------------------------------------- a synth on the sequencer
\* a sequencer unit with an FM synth and an envelope, subscribed by direct
\* connectNote / connectTrigger calls
TheSequencer == [node |-> "seq", gen |-> 1]

SynthTargets == {[node |-> "fm", gen |-> 1], [node |-> "env", gen |-> 1]}

InitSynth ==
  /\ canvas = "synth"
  /\ audioNodes = InitWorld.audioNodes
  /\ nodeParams = InitWorld.nodeParams
  /\ connectedTriggers = InitWorld.connectedTriggers
  /\ connectedNotes = InitWorld.connectedNotes
  /\ patches = InitWorld.patches
  /\ scalers = InitWorld.scalers
  /\ vcoState = InitWorld.vcoState
  /\ toDest = InitWorld.toDest
  /\ disposed = InitWorld.disposed
  /\ disposeCalls = InitWorld.disposeCalls
  /\ created = [id \in NodeIds |-> 0]
  /\ edges = <<>>
  /\ pendingConnect = {}
  /\ pendingGate = {}
  /\ fired = NoFire
  /\ keyboard = NewKeyboard
  /\ grid = EmptyGrid
  /\ subscribeCalls = [p \in {TheSequencer} \X SynthTargets |-> 0]
  /\ console = <<>>
  /\ template = NoTemplate

\* source.connectNote(target)
CallConnectNote(src, target) ==
  /\ SetWorld(connectNote(World, src, target))
  /\ fired' = NoFire
  /\ UNCHANGED <<editorVars, keyboard, subscribeCalls>>

NextSynth ==
  \/ \E target \in SynthTargets : CallConnectNote(TheSequencer, target)
  \/ \E target \in SynthTargets : CallConnectTrigger(TheSequencer, target)
  \/ \E note \in Notes : SequencerStep(note)

SpecSynth == InitSynth /\ [][NextSynth]_vars

\* C28: on a sequencer step with an active cell the note is delivered to the
\* note targets before the trigger targets are triggered, so a synth that is
\* subscribed to both sounds the trigger with the note of that same step.
C28_NoteBeforeGate ==
  fired.event = "step" =>
    \A i \in 1..Len(fired.trigger) :
      HasCurrentNote(fired.trigger[i]) /\ Includes(connectedNotes[fired.src], fired.trigger[i])
        => /\ Includes(fired.setNote, fired.trigger[i])
           /\ fired.sounded[i] = fired.note
           /\ vcoState[fired.trigger[i]].currentNote = fired.note

C28_Witness ==
  /\ fired.event = "step"
  /\ fired.note = "A4"
  /\ connectedNotes[TheSequencer] = <<[node |-> "env", gen |-> 1], [node |-> "fm", gen |-> 1]>>
  /\ fired.trigger = <<[node |-> "env", gen |-> 1], [node |-> "fm", gen |-> 1]>>
  /\ fired.sounded = <<Undefined, "A4">>

KeyboardTargets == {[node |-> "env", gen |-> 1], [node |-> "fm", gen |-> 1],
                    [node |-> "vco", gen |-> 1]}

\* the lists connectTrigger / connectNote can build over a set of targets
TargetLists(ts) ==
  {s \in UNION {[1..k -> ts] : k \in 0..Cardinality(ts)} :
      \A i, j \in 1..Len(s) : i # j => s[i] # s[j]}

InitKeyboard ==
  /\ canvas = "keyboard"
  /\ audioNodes = InitWorld.audioNodes
  /\ nodeParams = InitWorld.nodeParams
  /\ \E list \in TargetLists(KeyboardTargets) :
        /\ connectedTriggers = [InitWorld.connectedTriggers EXCEPT ![TheKeyboard] = list]
        /\ subscribeCalls = [p \in {TheKeyboard} \X KeyboardTargets |->
                               IF Includes(list, p[2]) THEN 1 ELSE 0]
  /\ \E list \in TargetLists({[node |-> "fm", gen |-> 1]}) :
        connectedNotes = [InitWorld.connectedNotes EXCEPT ![TheKeyboard] = list]
  /\ patches = InitWorld.patches
  /\ scalers = InitWorld.scalers
  /\ vcoState = InitWorld.vcoState
  /\ toDest = InitWorld.toDest
  /\ disposed = InitWorld.disposed
  /\ disposeCalls = InitWorld.disposeCalls
  /\ created = [id \in NodeIds |-> 0]
  /\ edges = <<>>
  /\ pendingConnect = {}
  /\ pendingGate = {}
  /\ fired = NoFire
  /\ keyboard = NewKeyboard
  /\ grid = EmptyGrid
  /\ console = <<>>
  /\ template = NoTemplate

NextKeyboard ==
  \/ \E note \in Notes : KeyAttack(note)
  \/ KeyRelease
  \/ \E enabled \in BOOLEAN : SetHold(enabled)

SpecKeyboard == InitKeyboard /\ [][NextKeyboard]_vars

\* C30: after every triggerAttack, triggerRelease or setHold call
\* lastGateState equals (isPressed or isHold), and every subscribed trigger
\* target is called with triggerAttack exactly when the gate goes from low
\* to high and with triggerRelease exactly when it goes from high to low;
\* the gate starts low, so the calls a target receives alternate, starting
\* with triggerAttack.
C30_GateAlternates ==
  [][/\ keyboard'.lastGateState = (keyboard'.isPressed \/ keyboard'.isHold)
     /\ \A t \in KeyboardTargets :
          Includes(connectedTriggers[TheKeyboard], t) /\ HasTriggerAttack(t) =>
            /\ (fired'.event = "gateHigh" /\ Count(fired'.trigger, t) = 1)
                 <=> (~keyboard.lastGateState /\ keyboard'.lastGateState)
            /\ (fired'.event = "gateLow" /\ Count(fired'.trigger, t) = 1)
                 <=> (keyboard.lastGateState /\ ~keyboard'.lastGateState)
            /\ fired'.event \notin {"gateHigh", "gateLow"} => Count(fired'.trigger, t) = 0]_vars

\* the gate has just gone low with both trigger targets subscribed: hold was
\* switched off after the key had been released
C30_Witness ==
  /\ fired.event = "gateLow"
  /\ fired.trigger = <<[node |-> "fm", gen |-> 1], [node |-> "env", gen |-> 1]>>
  /\ connectedTriggers[TheKeyboard] =
       <<[node |-> "fm", gen |-> 1], [node |-> "vco", gen |-> 1], [node |-> "env", gen |-> 1]>>
  /\ ~keyboard.isPressed
  /\ ~keyboard.isHold
  /\ ~keyboard.lastGateState

\* ---------------------------------------------------------------- the oscillator on its own
\* two VCONode units and the calls made on them: the input flags and the
\* frequency slider (handleFrequencyChange, in hundredths of a hertz)
VcoUnits == {[node |-> "vco", gen |-> 1], [node |-> "vco", gen |-> 2]}

SliderValues == {20 * 100, 880 * 100, 2000 * 100}

InitVco ==
  /\ canvas = "vco"
  /\ audioNodes = InitWorld.audioNodes
  /\ nodeParams = InitWorld.nodeParams
  /\ connectedTriggers = InitWorld.connectedTriggers
  /\ connectedNotes = InitWorld.connectedNotes
  /\ patches = InitWorld.patches
  /\ scalers = InitWorld.scalers
  /\ vcoState = InitWorld.vcoState
  /\ toDest = InitWorld.toDest
  /\ disposed = InitWorld.disposed
  /\ disposeCalls = InitWorld.disposeCalls
  /\ created = [id \in NodeIds |-> 0]
  /\ edges = <<>>
  /\ pendingConnect = {}
  /\ pendingGate = {}
  /\ fired = NoFire
  /\ keyboard = NewKeyboard
  /\ grid = EmptyGrid
  /\ subscribeCalls = [p \in {} |-> 0]
  /\ console = <<>>
  /\ template = NoTemplate

\* unit.setCVInputConnected(connected)
CallSetCVInputConnected(u, connected) ==
  /\ SetWorld(setCVInputConnected(World, u, connected))
  /\ fired' = NoFire
  /\ UNCHANGED <<editorVars, keyboard, subscribeCalls>>

\* unit.setNoteInputConnected(connected)
CallSetNoteInputConnected(u, connected) ==
  /\ SetWorld(setNoteInputConnected(World, u, connected))
  /\ fired' = NoFire
  /\ UNCHANGED <<editorVars, keyboard, subscribeCalls>>

\* unit.setBaseFrequency(value)
CallSetBaseFrequency(u, value) ==
  /\ SetWorld(setBaseFrequency(World, u, value))
  /\ fired' = NoFire
  /\ UNCHANGED <<editorVars, keyboard, subscribeCalls>>

NextVco ==
  \/ \E u \in VcoUnits, connected \in BOOLEAN : CallSetCVInputConnected(u, connected)
  \/ \E u \in VcoUnits, connected \in BOOLEAN : CallSetNoteInputConnected(u, connected)
  \/ \E u \in VcoUnits, value \in SliderValues : CallSetBaseFrequency(u, value)

SpecVco == InitVco /\ [][NextVco]_vars

\* C31: while CV In or Note In is marked connected on a VCONode,
\* setBaseFrequency(value) changes neither baseFrequency nor
\* defaultFrequency; when neither is marked connected it sets both to value.
C31_SetBaseFrequency ==
  [][\A u \in VcoUnits, value \in SliderValues :
       CallSetBaseFrequency(u, value) =>
         IF vcoState[u].hasCVInput \/ vcoState[u].hasNoteInput
         THEN /\ vcoState'[u].baseFrequency = vcoState[u].baseFrequency
              /\ vcoState'[u].defaultFrequency = vcoState[u].defaultFrequency
         ELSE /\ vcoState'[u].baseFrequency = value
              /\ vcoState'[u].defaultFrequency = value]_vars

\* the slider was moved to 880 Hz, then the note input was marked connected:
\* the base frequency is 0 and the remembered default is the slider's value
C31_Witness ==
  \E u \in VcoUnits :
    /\ vcoState[u].hasNoteInput
    /\ ~vcoState[u].hasCVInput
    /\ vcoState[u].baseFrequency = 0
    /\ vcoState[u].defaultFrequency = 880 * 100

\* C32: after any sequence of setCVInputConnected, setNoteInputConnected and
\* setBaseFrequency calls on a VCONode, baseFrequency is 0 while an input is
\* marked connected and equals defaultFrequency when neither is, and
\* lastConnectedInput is null exactly when neither input is marked connected.
C32_BaseFrequencyFollowsFlags ==
  \A u \in VcoUnits :
    /\ vcoState[u].hasCVInput \/ vcoState[u].hasNoteInput => vcoState[u].baseFrequency = 0
    /\ ~vcoState[u].hasCVInput /\ ~vcoState[u].hasNoteInput
         => vcoState[u].baseFrequency = vcoState[u].defaultFrequency
    /\ vcoState[u].lastConnectedInput = "null"
         <=> (~vcoState[u].hasCVInput /\ ~vcoState[u].hasNoteInput)

\* both inputs were marked connected and disconnected again after the slider
\* had been moved: the base frequency is back at the slider's value
C32_Witness ==
  \E u, other \in VcoUnits :
    /\ ~vcoState[u].hasCVInput
    /\ ~vcoState[u].hasNoteInput
    /\ vcoState[u].baseFrequency = 2000 * 100
    /\ vcoState[u].lastConnectedInput = "null"
    /\ vcoState[other].hasCVInput
    /\ vcoState[other].hasNoteInput
    /\ vcoState[other].lastConnectedInput = "note"

\* C33: a VCONode's hasCVInput / hasNoteInput flag is true only while an
\* edge of the store targets that oscillator's frequency / note input: once
\* the last such edge is deleted (and no connect timer is pending) the flag
\* is cleared and the base frequency is back at the default, also for a
\* unit re-created by its component.
InputEdgeStored(id, property) ==
  \E i \in 1..Len(edges) :
    edges[i].target = id /\ edges[i].data.targetProperty = property

C33_FlagsFollowEdges ==
  pendingConnect = {} =>
    \A id \in DOMAIN audioNodes :
      HasInputFlags(audioNodes[id]) =>
        LET v == vcoState[audioNodes[id]]
        IN /\ v.hasCVInput => InputEdgeStored(id, "frequency")
           /\ v.hasNoteInput => InputEdgeStored(id, "note")
           /\ ~InputEdgeStored(id, "frequency") /\ ~InputEdgeStored(id, "note")
                => v.baseFrequency = v.defaultFrequency

\* ---------------------------------------------------------------- construction and registration effects
\* NodeVCO and NodeLFO keep two effects: one constructs the unit (dependencies
\* id, data.frequency, data.type), the other registers vcoNode.current /
\* lfo.current (dependencies id, data.registerAudioNode, data.edges; NodeLFO
\* registers from a 50 ms timer)
TwoEffectNodes == {"vco", "lfo"}

\* the unit the component's ref holds: the one it constructed last
Current(id) == [node |-> id, gen |-> created[id]]

InitEffects == canvas = "modulation" /\ InitEditor

\* the component mounts: NodeVCO's two effects run in the same commit
MountVCO ==
  /\ created["vco"] = 0
  /\ Register("vco", TRUE, ComponentParams("vco"))

\* the construction effect runs alone: NodeLFO mounts (its registration is
\* left to the timer), or the node's data.frequency / data.type changed; the
\* cleanup disposes the unit the ref holds, then a new unit is constructed
\* and NodeVCO restores the previous unit's input flags on it
ConstructionEffect(id) ==
  /\ id \in TwoEffectNodes
  /\ id = "vco" => created[id] > 0
  /\ created[id] < MaxGen
  /\ LET previousNode == Current(id)
         u == [node |-> id, gen |-> created[id] + 1]
         hadCVInput == created[id] > 0 /\ vcoState[previousNode].hasCVInput
         hadNoteInput == created[id] > 0 /\ vcoState[previousNode].hasNoteInput
         w1 == IF created[id] > 0 THEN Dispose(World, previousNode) ELSE World
         w2 == IF id = "vco" /\ hadCVInput THEN setCVInputConnected(w1, u, TRUE) ELSE w1
         w3 == IF id = "vco" /\ hadNoteInput THEN setNoteInputConnected(w2, u, TRUE) ELSE w2
     IN SetWorld(w3)
  /\ created' = [created EXCEPT ![id] = @ + 1]
  /\ fired' = NoFire
  /\ UNCHANGED <<unitVars, template, canvas, edges, pendingConnect, pendingGate>>

\* the registration effect runs (data.edges changed, or NodeLFO's timer):
\* data.registerAudioNode(id, ref.current, params)
RegistrationEffect(id) ==
  /\ id \in TwoEffectNodes
  /\ created[id] > 0
  /\ LET w == registerAudioNode(World, id, Current(id), edges, ComponentParams(id))
     IN /\ BagCardinality(w.scalers) <= MaxScalers
        /\ SetWorld(w)
  /\ fired' = NoFire
  /\ UNCHANGED <<unitVars, template, canvas, created, edges, pendingConnect, pendingGate>>

NextEffects ==
  \/ MountVCO
  \/ \E id \in TwoEffectNodes : ConstructionEffect(id)
  \/ \E id \in TwoEffectNodes : RegistrationEffect(id)
  \/ \E c \in CanvasConnections(canvas) : OnConnect(c)
  \/ \E e \in EdgeUniverse : TimerConnect(e)
  \/ \E e \in EdgeUniverse : OnEdgesDelete(e)

SpecEffects == InitEffects /\ [][NextEffects]_vars

\* C34: the unit the registry stores under a node id is the component's
\* current unit and is not disposed; the registry never maps an id to a unit
\* its component has disposed and replaced.
C34_RegistryHoldsCurrentUnit ==
  \A id \in DOMAIN audioNodes :
    /\ audioNodes[id] \notin disposed
    /\ audioNodes[id] = Current(id)

\* C35: no unit is disposed more than once; when a node is deleted,
\* deleteAudioNode and the component's unmount cleanup do not both call
\* dispose on the same unit.
C35_DisposedOnce ==
  \A u \in Unit : disposeCalls[u] <= 1

\* ---------------------------------------------------------------- the sequencer grid
\* a sequencer unit with an FM synth as note target and an envelope and the
\* synth as trigger targets; the user clicks grid cells while the transport
\* runs
InitGrid ==
  /\ canvas = "grid"
  /\ audioNodes = InitWorld.audioNodes
  /\ nodeParams = InitWorld.nodeParams
  /\ connectedTriggers = [InitWorld.connectedTriggers EXCEPT ![TheSequencer] =
                            <<[node |-> "env", gen |-> 1], [node |-> "fm", gen |-> 1]>>]
  /\ connectedNotes = [InitWorld.connectedNotes EXCEPT ![TheSequencer] =
                         <<[node |-> "fm", gen |-> 1]>>]
  /\ patches = InitWorld.patches
  /\ scalers = InitWorld.scalers
  /\ vcoState = InitWorld.vcoState
  /\ toDest = InitWorld.toDest
  /\ disposed = InitWorld.disposed
  /\ disposeCalls = InitWorld.disposeCalls
  /\ created = [id \in NodeIds |-> 0]
  /\ edges = <<>>
  /\ pendingConnect = {}
  /\ pendingGate = {}
  /\ fired = NoFire
  /\ keyboard = NewKeyboard
  /\ grid = EmptyGrid
  /\ subscribeCalls = [p \in {} |-> 0]
  /\ console = <<>>
  /\ template = NoTemplate

handleCellClickToggleOnly(g, rowIndex, colIndex) ==
  [g EXCEPT ![rowIndex][colIndex] = ~g[rowIndex][colIndex]]

\* the state updater of handleCellClick: every row is copied with the
\* clicked step switched off, then the clicked cell becomes the negation of
\* its previous value
handleCellClick(g, rowIndex, colIndex) ==
  LET newGrid == [row \in 1..GridRows |-> [g[row] EXCEPT ![colIndex] = FALSE]]
  IN [newGrid EXCEPT ![rowIndex][colIndex] = ~g[rowIndex][colIndex]]

CellClick(rowIndex, colIndex) ==
  /\ grid' = handleCellClick(grid, rowIndex, colIndex)
  /\ fired' = NoFire
  /\ UNCHANGED <<canvas, created, edges, pendingConnect, pendingGate, managerVars,
                 keyboard, subscribeCalls, console, template>>

\* the Tone.Sequence callback for one step: this.grid.forEach over the rows,
\* each row that is on at the step sends its key to the note targets and
\* then triggers the trigger targets
RECURSIVE StepRows(_, _, _, _)
StepRows(acc, src, step, row) ==
  IF row > GridRows THEN acc
  ELSE IF grid[row][step]
       THEN LET note == Keys[row]
                noteCalls == SelectSeq(connectedNotes[src], LAMBDA t : HasSetNote(t))
                trigCalls == SelectSeq(connectedTriggers[src],
                                       LAMBDA t : HasTriggerAttackRelease(t))
                afterNotes == SetNoteAll(acc.w, noteCalls, note)
            IN StepRows([w |-> afterNotes, note |-> note,
                         setNote |-> acc.setNote \o noteCalls,
                         trigger |-> acc.trigger \o trigCalls,
                         sounded |-> acc.sounded \o SoundedAll(afterNotes, trigCalls)],
                        src, step, row + 1)
       ELSE StepRows(acc, src, step, row + 1)

SequenceCallback(step) ==
  LET done == StepRows([w |-> World, note |-> "", setNote |-> <<>>, trigger |-> <<>>,
                        sounded |-> <<>>], TheSequencer, step, 1)
  IN /\ SetWorld(done.w)
     /\ fired' = [event |-> "step", src |-> TheSequencer, note |-> done.note,
                  setNote |-> done.setNote, trigger |-> done.trigger,
                  sounded |-> done.sounded]
     /\ UNCHANGED <<editorVars, keyboard, subscribeCalls>>

NextGrid ==
  \/ \E rowIndex \in 1..GridRows, colIndex \in 1..GridSteps : CellClick(rowIndex, colIndex)
  \/ \E step \in 1..GridSteps : SequenceCallback(step)

SpecGrid == InitGrid /\ [][NextGrid]_vars

\* C36: after any sequence of grid cell clicks every step column has at most
\* one active cell, so a step sends at most one note and one gate event to
\* each target.
C36_OneCellPerStep ==
  /\ \A col \in 1..GridSteps : Cardinality({row \in 1..GridRows : grid[row][col]}) <= 1
  /\ fired.event = "step" =>
       /\ \A t \in SynthTargets : Count(fired.setNote, t) <= 1
       /\ \A t \in SynthTargets : Count(fired.trigger, t) <= 1

\* the first row was switched on at step 1, then the second row was clicked
\* at the same step, and the step has played the second row's key only
C36_Witness ==
  /\ grid[2][1]
  /\ ~grid[1][1]
  /\ grid[1][2]
  /\ fired.event = "step"
  /\ fired.note = Keys[2]
  /\ fired.setNote = <<[node |-> "fm", gen |-> 1]>>
  /\ fired.trigger = <<[node |-> "env", gen |-> 1], [node |-> "fm", gen |-> 1]>>

\* ---------------------------------------------------------------- note to CV
\* a NoteToCVNode whose CV Out is connected to the oscillator's CV In
NoteCvConnection ==
  [source |-> "notecv", target |-> "vco",
   sourceHandle |-> <<"notecv", "control2", "frequency", "cv">>,
   targetHandle |-> <<"vco", "control1", "frequency", "cv">>]

\* input frequencies, in tenths of a hertz
NoteCvInputs == {20 * 10, 110 * 10, 440 * 10, 880 * 10, 2000 * 10}

OctaveOffsets == {0, 1}

RECURSIVE Pow2(_)
Pow2(n) == IF n = 0 THEN 1 ELSE 2 * Pow2(n - 1)

cvOutputWithoutOffset(w, u) ==
  [num |-> w.vcoState[u].noteInput * Pow2(w.vcoState[u].octaveOffset),
   den |-> (2000 - 20) * 10]

\* the value of NoteToCVNode.cvOutput as a fraction: noteInput ->
\* Multiply(2^octaveOffset) -> Multiply(2^(tuning/1200)), tuning 0 ->
\* Add(-20) -> Multiply(1 / (2000 - 20))
cvOutput(w, u) ==
  [num |-> w.vcoState[u].noteInput * Pow2(w.vcoState[u].octaveOffset) - 20 * 10,
   den |-> (2000 - 20) * 10]

\* NoteToCVNode.setNote(frequency): this.noteInput.value = frequency
noteCvSetNote(w, u, frequency) == [w EXCEPT !.vcoState[u].noteInput = frequency]

\* NoteToCVNode.setOctaveOffset(offset)
setOctaveOffset(w, u, offset) == [w EXCEPT !.vcoState[u].octaveOffset = offset]

InitNoteCV ==
  /\ canvas = "notecv"
  /\ audioNodes = InitWorld.audioNodes
  /\ nodeParams = InitWorld.nodeParams
  /\ connectedTriggers = InitWorld.connectedTriggers
  /\ connectedNotes = InitWorld.connectedNotes
  /\ patches = InitWorld.patches
  /\ scalers = InitWorld.scalers
  /\ vcoState = InitWorld.vcoState
  /\ toDest = InitWorld.toDest
  /\ disposed = InitWorld.disposed
  /\ disposeCalls = InitWorld.disposeCalls
  /\ created = [id \in NodeIds |-> 0]
  /\ edges = <<NewEdge(NoteCvConnection)>>
  /\ pendingConnect = {}
  /\ pendingGate = {}
  /\ fired = NoFire
  /\ keyboard = NewKeyboard
  /\ grid = EmptyGrid
  /\ subscribeCalls = [p \in {} |-> 0]
  /\ console = <<>>
  /\ template = NoTemplate

\* a note event reaches the registered NoteToCVNode
NoteCvNote(frequency) ==
  /\ "notecv" \in DOMAIN audioNodes
  /\ SetWorld(noteCvSetNote(World, audioNodes["notecv"], frequency))
  /\ fired' = NoFire
  /\ UNCHANGED <<editorVars, keyboard, subscribeCalls>>

\* handleOctaveOffsetChange
OctaveOffsetChange(offset) ==
  /\ "notecv" \in DOMAIN audioNodes
  /\ SetWorld(setOctaveOffset(World, audioNodes["notecv"], offset))
  /\ fired' = NoFire
  /\ UNCHANGED <<editorVars, keyboard, subscribeCalls>>

NextNoteCV ==
  \/ \E id \in {"notecv", "vco"}, fresh \in BOOLEAN : Register(id, fresh, ComponentParams(id))
  \/ \E frequency \in NoteCvInputs : NoteCvNote(frequency)
  \/ \E offset \in OctaveOffsets : OctaveOffsetChange(offset)

SpecNoteCV == InitNoteCV /\ [][NextNoteCV]_vars

\* C37: with octave offset 0 and tuning 0, the NoteToCVNode's normalisation
\* of a frequency f followed by the scale stage connect builds for the VCO's
\* declared frequency range [20, 2000] reproduces f; 20 Hz is normalised to
\* 0 and 2000 Hz to 1.
C37_NormaliseThenScale ==
  \A r \in DOMAIN scalers :
    r.src.node = "notecv" /\ r.dst.node = "vco" /\ r.port = "frequency"
      /\ vcoState[r.src].octaveOffset = 0
      => LET f == vcoState[r.src].noteInput
             cv == cvOutput(World, r.src)
         IN /\ f \in NoteCvInputs => ScaleOutput(r, cv.num, cv.den) = f
            /\ f = 20 * 10 => cv.num = 0
            /\ f = 2000 * 10 => cv.num = cv.den

C37_Witness ==
  \E r \in DOMAIN scalers :
    /\ r.src = audioNodes["notecv"]
    /\ r.dst = audioNodes["vco"]
    /\ r.port = "frequency"
    /\ vcoState[r.src].octaveOffset = 0
    /\ vcoState[r.src].noteInput = 440 * 10
    /\ ScaleOutput(r, cvOutput(World, r.src).num, cvOutput(World, r.src).den) = 440 * 10

\* ---------------------------------------------------------------- edge ids
\* the sequencer's Gate Out drawn to the FM synth's Trigger In, and its
\* Note Out drawn to the FM synth's Note In
FmGateConnection ==
  [source |-> "seq", target |-> "fm",
   sourceHandle |-> <<"seq", "gate", "gate">>,
   targetHandle |-> <<"fm", "control1", "trigger", "gate">>]

FmNoteConnection ==
  [source |-> "seq", target |-> "fm",
   sourceHandle |-> <<"seq", "note", "note">>,
   targetHandle |-> <<"fm", "control2", "note", "note">>]

FmConnections == {GateConnection, FmGateConnection, FmNoteConnection}

FmEdges == {NewEdge(c) : c \in FmConnections}

InitEdges == canvas = "fm" /\ InitEditor

NextEdges ==
  \/ \E id \in {"seq", "fm"}, fresh \in BOOLEAN : Register(id, fresh, ComponentParams(id))
  \/ \E c \in FmConnections : OnConnect(c)
  \/ \E e \in FmEdges : TimerConnect(e)
  \/ \E e \in FmEdges : TimerGate(e)
  \/ \E e \in FmEdges : OnEdgesDelete(e)

SpecEdges == InitEdges /\ [][NextEdges]_vars

\* C38: distinct edges in the edge store have distinct ids (two edges drawn
\* between the same pair of nodes on different handles do not share an id),
\* so removing an edge by its id removes exactly that one edge.
C38_DistinctEdgeIds ==
  \A i, j \in 1..Len(edges) : i # j => edges[i].id # edges[j].id
====
